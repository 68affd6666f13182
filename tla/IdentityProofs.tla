--------------------------- MODULE IdentityProofs ---------------------------
(* Proofs about identity: sign-in by magic link, for any number of emails, *)
(* origins, accounts, requests, workers and browsers and any limits and    *)
(* window; then the use of sessions and the administration of users, for   *)
(* any number of users, sessions and concurrent calls.                     *)
EXTENDS MagicLinks, Sessions, FiniteSetTheorems, TLAPS

-----------------------------------------------------------------------------
(* The inductive invariant                                                 *)

(* What of a link a step may change once its request committed.            *)
Moves ==
    {<<"pending", "failed">>, <<"pending", "issuing">>, <<"issuing", "failed">>,
     <<"issuing", "issued">>, <<"issuing", "superseded">>,
     <<"issued", "superseded">>, <<"issued", "consumed">>}

(* A request that is open or committed has an email and an origin; one     *)
(* that did not commit was never issued.                                   *)
RequestsAreNamed ==
    \A i \in Ids :
        /\ links[i].row \in {"open", "committed"} =>
              links[i].email \in Emails /\ links[i].origin \in Origins
        /\ links[i].row # "committed" => links[i].state \in {"none", "pending", "failed"}

(* At any time finitely many requests were made.                           *)
Used == {i \in Ids : links[i].row # "absent"}

(* A worker past its first transaction has the link it is issuing to       *)
(* itself.                                                                 *)
Issuing == {"provider", "fail", "final"}

IssuersOwn ==
    /\ \A w \in Workers :
          /\ issuer[w].pc # "idle" => issuer[w].id \in Ids
          /\ issuer[w].pc \in Issuing =>
                Committed(issuer[w].id) /\ links[issuer[w].id].state = "issuing"
    /\ \A v, w \in Workers :
          issuer[v].pc \in Issuing /\ issuer[w].pc \in Issuing /\ issuer[v].id = issuer[w].id
             => v = w

BrowsersAreNamed ==
    \A b \in Browsers :
        /\ browser[b].pc # "idle" => browser[b].id \in Ids
        /\ browser[b].pc = "final" => browser[b].subject \in Subjects /\ browser[b].email \in Emails

(* The rows the limiter counts for a request of email e, or of origin o,   *)
(* at time t.                                                              *)
RecentOf(field, value, t) ==
    {i \in Ids : Committed(i) /\ links[i][field] = value /\ links[i].at > t - Window}

(* The limiter's locks: open requests share no email and no origin, and    *)
(* what an open request counted is still what there is.                    *)
LimiterHolds ==
    \A i \in Ids : links[i].row = "open" =>
        /\ \A j \in Ids \ {i} : links[j].row = "open" =>
              links[j].email # links[i].email /\ links[j].origin # links[i].origin
        /\ links[i].decision # "limited" =>
              /\ Recent("email", links[i].email, links[i].at) < EmailLimit
              /\ Recent("origin", links[i].origin, links[i].at) < OriginLimit

IInv ==
    /\ TypeOK
    /\ RequestsAreNamed
    /\ IsFiniteSet(Used)
    /\ IssuersOwn
    /\ BrowsersAreNamed
    /\ LimiterHolds
    /\ SessionMatchesLink
    /\ NewerLinkWins
    /\ RequestsLimited

-----------------------------------------------------------------------------
(* Records                                                                 *)

LEMMA RecordTypes ==
    /\ NoLink \in LinkRow
    /\ [NoLink EXCEPT !.row = "rolled_back"] \in LinkRow
    /\ [NoLink EXCEPT !.row = "rolled_back"].row = "rolled_back"
    /\ [NoLink EXCEPT !.row = "rolled_back"].state = "none"
    /\ IssuerIdle \in IssueCall /\ IssuerIdle.pc = "idle"
    /\ BrowserIdle \in ConfirmCall /\ BrowserIdle.pc = "idle"
<1>0. 0 \in 0..MaxTime /\ 0 \in 0..(MaxTime + Window)
  BY LinkAssumption
<1>1. NoLink \in LinkRow
  BY <1>0 DEF NoLink, LinkRow, AttemptStates, Decisions
<1>2. [NoLink EXCEPT !.row = "rolled_back"] \in LinkRow
  BY <1>1 DEF LinkRow
<1>3. /\ [NoLink EXCEPT !.row = "rolled_back"].row = "rolled_back"
      /\ [NoLink EXCEPT !.row = "rolled_back"].state = "none"
  BY DEF NoLink
<1>4. IssuerIdle \in IssueCall /\ IssuerIdle.pc = "idle"
  BY <1>0 DEF IssuerIdle, IssueCall
<1>5. BrowserIdle \in ConfirmCall /\ BrowserIdle.pc = "idle"
  BY <1>0 DEF BrowserIdle, ConfirmCall
<1> QED
  BY <1>1, <1>2, <1>3, <1>4, <1>5

(* Everything of a row but its state and its expiry.                       *)
SameRequest(r, q) ==
    /\ r.row = q.row /\ r.email = q.email /\ r.origin = q.origin
    /\ r.at = q.at /\ r.decision = q.decision /\ r.kind = q.kind

LEMMA SetStateMoves ==
    ASSUME TypeOK, NEW i \in Ids, NEW state \in AttemptStates, SetState(i, state)
    PROVE  /\ links' \in [Ids -> LinkRow]
           /\ \A j \in Ids : SameRequest(links'[j], links[j])
           /\ links'[i].state = state
           /\ \A j \in Ids : j # i => links'[j] = links[j]
<1>1. links[i] \in LinkRow
  BY DEF TypeOK
<1>2. links' = [links EXCEPT ![i] = [links[i] EXCEPT !.state = state]]
  BY <1>1 DEF SetState, TypeOK, LinkRow
<1>3. [links[i] EXCEPT !.state = state] \in LinkRow
  BY <1>1 DEF LinkRow
<1> QED
  BY <1>1, <1>2, <1>3 DEF TypeOK, LinkRow, SameRequest

LEMMA IssuedMoves ==
    ASSUME TypeOK, NEW i \in Ids, NEW t \in 0..MaxTime,
           links' = [j \in Ids |->
                 IF j = i THEN Issued(i, t)
                 ELSE IF j \in Current(i) THEN [links[j] EXCEPT !.state = "superseded"]
                 ELSE links[j]]
    PROVE  /\ links' \in [Ids -> LinkRow]
           /\ \A j \in Ids : SameRequest(links'[j], links[j])
           /\ links'[i].state = "issued"
           /\ \A j \in Ids : j # i /\ j \in Current(i) => links'[j].state = "superseded"
           /\ \A j \in Ids : j # i /\ j \notin Current(i) => links'[j] = links[j]
<1>1. t + Window \in 0..(MaxTime + Window)
  BY LinkAssumption
<1>2. Issued(i, t) \in LinkRow /\ SameRequest(Issued(i, t), links[i]) /\ Issued(i, t).state = "issued"
  <2>1. links[i] \in LinkRow
    BY DEF TypeOK
  <2>2. PICK x \in 0..(MaxTime + Window) : x = Expiry(t)
    BY <1>1 DEF Expiry
  <2>3. Issued(i, t) = [links[i] EXCEPT !.state = "issued", !.expires = x]
    BY <2>2 DEF Issued
  <2> QED
    BY <2>1, <2>3 DEF LinkRow, AttemptStates, SameRequest
<1>3. ASSUME NEW j \in Ids
      PROVE  /\ [links[j] EXCEPT !.state = "superseded"] \in LinkRow
             /\ SameRequest([links[j] EXCEPT !.state = "superseded"], links[j])
             /\ [links[j] EXCEPT !.state = "superseded"].state = "superseded"
             /\ SameRequest(links[j], links[j])
             /\ links[j] \in LinkRow
  <2>1. links[j] \in LinkRow
    BY DEF TypeOK
  <2> QED
    BY <2>1 DEF LinkRow, AttemptStates, SameRequest
<1>4. \A j \in Ids :
         \/ j = i /\ links'[j] = Issued(i, t)
         \/ j # i /\ j \in Current(i) /\ links'[j] = [links[j] EXCEPT !.state = "superseded"]
         \/ j # i /\ j \notin Current(i) /\ links'[j] = links[j]
  OBVIOUS
<1>5. links' \in [Ids -> LinkRow]
  <2>1. \A j \in Ids : links'[j] \in LinkRow
    BY <1>2, <1>3, <1>4
  <2>2. links' = [j \in Ids |-> links'[j]]
    OBVIOUS
  <2> QED
    BY <2>1, <2>2
<1>6. \A j \in Ids : SameRequest(links'[j], links[j])
  BY <1>2, <1>3, <1>4
<1> QED
  BY <1>2, <1>3, <1>4, <1>5, <1>6

(* Where a worker is, and whether its job is over.                         *)
LEMMA IssuerMoves ==
    ASSUME TypeOK, NEW w \in Workers, NEW pc \in {"load", "provider", "fail", "final"},
           IssuerAt(w, pc)
    PROVE  /\ issuer' \in [Workers -> IssueCall]
           /\ issuer'[w].pc = pc /\ issuer'[w].id = issuer[w].id
           /\ \A x \in Workers : x # w => issuer'[x] = issuer[x]
BY DEF TypeOK, IssuerAt, IssueCall

LEMMA JobOverMoves ==
    ASSUME TypeOK, NEW w \in Workers, issuer' = [issuer EXCEPT ![w] = IssuerIdle]
    PROVE  /\ issuer' \in [Workers -> IssueCall]
           /\ issuer'[w].pc = "idle"
           /\ \A x \in Workers : x # w => issuer'[x] = issuer[x]
BY RecordTypes DEF TypeOK

(* A new request.                                                          *)
LEMMA NewRequestType ==
    ASSUME NEW e \in Emails, NEW o \in Origins, NEW t \in 0..MaxTime, NEW d \in Decisions
    PROVE  /\ NewRequest(e, o, t, d) \in LinkRow
           /\ NewRequest(e, o, t, d).row = "open"
           /\ NewRequest(e, o, t, d).email = e
           /\ NewRequest(e, o, t, d).origin = o
           /\ NewRequest(e, o, t, d).at = t
           /\ NewRequest(e, o, t, d).decision = d
           /\ NewRequest(e, o, t, d).state = "none"
<1>1. PICK k \in {"invitation", "product_user"} :
         k = IF Invited(e) THEN "invitation" ELSE "product_user"
  OBVIOUS
<1>2. NewRequest(e, o, t, d) =
        [NoLink EXCEPT !.row = "open", !.email = e, !.origin = o, !.at = t,
                       !.decision = d, !.kind = k]
  BY <1>1 DEF NewRequest
<1>3. NoLink \in LinkRow /\ NoLink.state = "none"
  BY RecordTypes DEF NoLink
<1> QED
  BY <1>2, <1>3 DEF LinkRow

(* What a request writes: a row of its own, as it decided.                 *)
LEMMA RequestMoves ==
    ASSUME TypeOK, NEW i \in Ids, NEW e \in Emails, NEW o \in Origins,
           NEW t \in 0..MaxTime, RequestLink(i, e, o, t)
    PROVE  /\ links' \in [Ids -> LinkRow]
           /\ links'[i].row = "open" /\ links'[i].email = e /\ links'[i].origin = o
           /\ links'[i].at = t /\ links'[i].decision = Decision(e, o, t)
           /\ links'[i].state \in {"none", "pending", "failed"}
           /\ \A j \in Ids : j # i => links'[j] = links[j]
<1>1. PICK d \in Decisions : d = Decision(e, o, t)
  BY DEF Decision, Decisions
<1>2. PICK row \in LinkRow : row = NewRequest(e, o, t, d)
  BY NewRequestType
<1>3. /\ row.row = "open" /\ row.email = e /\ row.origin = o /\ row.at = t
      /\ row.decision = d /\ row.state = "none"
  BY <1>2, NewRequestType
<1>4. \/ links' = [links EXCEPT ![i] = row]
      \/ links' = [links EXCEPT ![i] = [row EXCEPT !.state = "pending"]]
      \/ links' = [links EXCEPT ![i] = [row EXCEPT !.state = "failed"]]
  BY <1>1, <1>2 DEF RequestLink
<1>5. ASSUME NEW s \in {"pending", "failed"}
      PROVE  /\ [row EXCEPT !.state = s] \in LinkRow
             /\ SameRequest([row EXCEPT !.state = s], row)
             /\ [row EXCEPT !.state = s].state = s
  BY DEF LinkRow, AttemptStates, SameRequest
<1>6. PICK new \in LinkRow :
         /\ links' = [links EXCEPT ![i] = new]
         /\ SameRequest(new, row)
         /\ new.state \in {"none", "pending", "failed"}
  <2>1. SameRequest(row, row)
    BY DEF SameRequest
  <2> QED
    BY <1>3, <1>4, <1>5, <2>1
<1>7. links' \in [Ids -> LinkRow] /\ links'[i] = new /\ \A j \in Ids : j # i => links'[j] = links[j]
  BY <1>6 DEF TypeOK
<1> QED
  BY <1>1, <1>3, <1>6, <1>7 DEF SameRequest

LEMMA CommitMoves ==
    ASSUME TypeOK, NEW i \in Ids, CommitRequest(i)
    PROVE  /\ links' \in [Ids -> LinkRow]
           /\ links'[i].row = "committed"
           /\ links'[i].email = links[i].email /\ links'[i].origin = links[i].origin
           /\ links'[i].at = links[i].at /\ links'[i].decision = links[i].decision
           /\ links'[i].state = links[i].state
           /\ \A j \in Ids : j # i => links'[j] = links[j]
BY DEF TypeOK, CommitRequest, LinkRow

LEMMA RollbackMoves ==
    ASSUME TypeOK, NEW i \in Ids, RollbackRequest(i)
    PROVE  /\ links' \in [Ids -> LinkRow]
           /\ links'[i].row = "rolled_back"
           /\ links'[i].state = "none"
           /\ \A j \in Ids : j # i => links'[j] = links[j]
BY RecordTypes DEF TypeOK, RollbackRequest

-----------------------------------------------------------------------------
(* Who writes what                                                         *)

LEMMA WhoWrites ==
    ASSUME [Next]_vars
    PROVE  /\ \/ UNCHANGED links
              \/ \E i \in Ids, e \in Emails, o \in Origins, t \in (now - MaxDelay)..now :
                    t >= 0 /\ RequestLink(i, e, o, t)
              \/ \E i \in Ids : CommitRequest(i) \/ RollbackRequest(i)
              \/ \E w \in Workers : IssueLoad(w) \/ IssueFails(w) \/ IssueLink(w)
              \/ \E b \in Browsers : ConfirmLink(b)
           /\ UNCHANGED issuer \/ \E w \in Workers : IssuerStep(w)
           /\ UNCHANGED browser \/ \E b \in Browsers : BrowserStep(b)
           /\ UNCHANGED <<session, account>> \/ \E b \in Browsers : ConfirmLink(b)
           /\ \/ UNCHANGED <<invitation, user>>
              \/ \E b \in Browsers : ConfirmLink(b)
              \/ \E e \in Emails : PreloadInvitation(e)
              \/ \E e \in Emails, to \in {"active", "disabled"} : ChangeUserStatus(e, to)
           /\ UNCHANGED now \/ Tick
<1>1. ASSUME NEW i \in Ids, RequestStep(i)
      PROVE  /\ UNCHANGED <<issuer, browser, session, account, invitation, user, now>>
             /\ \/ \E e \in Emails, o \in Origins, t \in (now - MaxDelay)..now :
                     t >= 0 /\ RequestLink(i, e, o, t)
                \/ CommitRequest(i) \/ RollbackRequest(i)
  BY <1>1 DEF RequestStep, RequestLink, CommitRequest, RollbackRequest
<1>2. ASSUME NEW w \in Workers, IssuerStep(w)
      PROVE  /\ UNCHANGED <<browser, session, account, invitation, user, now>>
             /\ UNCHANGED links \/ IssueLoad(w) \/ IssueFails(w) \/ IssueLink(w)
  BY <1>2 DEF IssuerStep, BeginIssue, IssueLoad, ProviderAnswers, IssueFails, IssueLink,
              IssuerCrash
<1>3. ASSUME NEW b \in Browsers, BrowserStep(b)
      PROVE  /\ UNCHANGED <<issuer, now>>
             /\ UNCHANGED <<links, session, account, invitation, user>> \/ ConfirmLink(b)
  BY <1>3 DEF BrowserStep, ConfirmStart, VerifyLink, ConfirmLink, ConfirmRefused
<1>4. ASSUME NEW e \in Emails,
             PreloadInvitation(e) \/ \E s \in {"active", "disabled"} : ChangeUserStatus(e, s)
      PROVE  UNCHANGED <<links, issuer, browser, session, account, now>>
  BY <1>4 DEF PreloadInvitation, ChangeUserStatus
<1>5. ASSUME Tick
      PROVE  UNCHANGED <<links, issuer, browser, session, account, invitation, user>>
  BY <1>5 DEF Tick
<1>6. CASE UNCHANGED vars
  BY <1>6 DEF vars
<1> QED
  BY <1>1, <1>2, <1>3, <1>4, <1>5, <1>6 DEF Next

(* The time of a request lies on the clock.                                *)
LEMMA RequestTime ==
    ASSUME TypeOK, NEW t \in (now - MaxDelay)..now, t >= 0
    PROVE  t \in 0..MaxTime
<1>1. now \in 0..MaxTime /\ MaxTime \in Nat /\ MaxDelay \in Nat
  BY LinkAssumption DEF TypeOK
<1> QED
  BY <1>1

(* What a confirmation has checked.                                        *)
LEMMA ConfirmFacts ==
    ASSUME IInv, NEW b \in Browsers, ConfirmLink(b)
    PROVE  /\ browser[b].id \in Ids
           /\ browser[b].subject \in Subjects
           /\ browser[b].email \in Emails
           /\ Committed(browser[b].id)
           /\ links[browser[b].id].state = "issued"
           /\ links[browser[b].id].email = browser[b].email
           /\ SetState(browser[b].id, "consumed")
           /\ session' = [session EXCEPT ![browser[b].id] = browser[b].email]
           /\ account' = [account EXCEPT ![browser[b].subject] = browser[b].email]
           /\ \/ account[browser[b].subject] = Nobody
              \/ account[browser[b].subject] = browser[b].email
<1>1. browser[b].pc = "final"
  BY DEF ConfirmLink
<1>2. /\ browser[b].id \in Ids /\ browser[b].subject \in Subjects
      /\ browser[b].email \in Emails
  BY <1>1 DEF IInv, BrowsersAreNamed
<1>3. Committed(browser[b].id) /\ links[browser[b].id].state = "issued"
  BY DEF ConfirmLink, StillLive, Live
<1>4. /\ links[browser[b].id].email = browser[b].email
      /\ \/ account[browser[b].subject] = Nobody
         \/ account[browser[b].subject] = browser[b].email
  BY DEF ConfirmLink, ProofAccepted, Unlinked
<1> QED
  BY <1>2, <1>3, <1>4 DEF ConfirmLink, LinkAccount

(* What an issuing transaction finds.                                      *)
LEMMA IssuerFacts ==
    ASSUME IInv, NEW w \in Workers
    PROVE  /\ issuer[w].at \in 0..MaxTime
           /\ issuer[w].pc # "idle" => issuer[w].id \in Ids
           /\ IssueFails(w) \/ IssueLink(w) \/ ProviderAnswers(w) =>
                 /\ issuer[w].id \in Ids /\ issuer[w].pc \in Issuing
                 /\ Committed(issuer[w].id)
                 /\ links[issuer[w].id].state = "issuing"
           /\ IssueLoad(w) => issuer[w].id \in Ids
<1>1. issuer[w].at \in 0..MaxTime
  BY DEF IInv, TypeOK, IssueCall
<1>2. issuer[w].pc # "idle" => issuer[w].id \in Ids
  BY DEF IInv, IssuersOwn
<1>3. IssueFails(w) \/ IssueLink(w) \/ ProviderAnswers(w) => issuer[w].pc \in Issuing
  BY DEF IssueFails, IssueLink, ProviderAnswers, Issuing
<1>4. issuer[w].pc \in Issuing =>
         issuer[w].id \in Ids /\ Committed(issuer[w].id) /\ links[issuer[w].id].state = "issuing"
  BY <1>2 DEF IInv, IssuersOwn, Issuing
<1>5. IssueLoad(w) => issuer[w].pc # "idle"
  BY DEF IssueLoad
<1> QED
  BY <1>1, <1>2, <1>3, <1>4, <1>5

LEMMA StatesAreTyped ==
    {"none", "pending", "issuing", "issued", "consumed", "superseded", "failed"} \subseteq AttemptStates
BY DEF AttemptStates

-----------------------------------------------------------------------------
(* How one link moves in a step                                            *)

LEMMA LinkMoves ==
    ASSUME IInv, [Next]_vars, NEW i \in Ids
    PROVE  \/ links'[i] = links[i]
           \/ /\ links[i].row = "absent" /\ links'[i].row = "open"
              /\ links'[i].state \in {"none", "pending", "failed"}
              /\ links'[i].email \in Emails /\ links'[i].origin \in Origins
           \/ /\ links[i].row = "open" /\ links'[i].row = "committed"
              /\ links'[i].email = links[i].email /\ links'[i].origin = links[i].origin
              /\ links'[i].state = links[i].state
           \/ /\ links[i].row = "open" /\ links'[i].row = "rolled_back"
              /\ links'[i].state = "none"
           \/ /\ Committed(i) /\ SameRequest(links'[i], links[i])
              /\ <<links[i].state, links'[i].state>> \in Moves
<1>0. TypeOK
  BY DEF IInv
<1> DEFINE Changed(x) == /\ Committed(x) /\ SameRequest(links'[x], links[x])
                         /\ <<links[x].state, links'[x].state>> \in Moves
<1>1. ASSUME NEW x \in Ids, NEW e \in Emails, NEW o \in Origins,
             NEW t \in (now - MaxDelay)..now, t >= 0, RequestLink(x, e, o, t)
      PROVE  \/ links'[i] = links[i]
             \/ /\ links[i].row = "absent" /\ links'[i].row = "open"
                /\ links'[i].state \in {"none", "pending", "failed"}
                /\ links'[i].email \in Emails /\ links'[i].origin \in Origins
  BY <1>0, <1>1, RequestTime, RequestMoves DEF RequestLink
<1>2. ASSUME NEW x \in Ids, CommitRequest(x)
      PROVE  \/ links'[i] = links[i]
             \/ /\ links[i].row = "open" /\ links'[i].row = "committed"
                /\ links'[i].email = links[i].email /\ links'[i].origin = links[i].origin
                /\ links'[i].state = links[i].state
  BY <1>0, <1>2, CommitMoves DEF CommitRequest
<1>3. ASSUME NEW x \in Ids, RollbackRequest(x)
      PROVE  \/ links'[i] = links[i]
             \/ /\ links[i].row = "open" /\ links'[i].row = "rolled_back"
                /\ links'[i].state = "none"
  BY <1>0, <1>3, RollbackMoves DEF RollbackRequest
<1>4. ASSUME NEW x \in Ids, NEW s \in AttemptStates, SetState(x, s), Committed(x),
             <<links[x].state, s>> \in Moves
      PROVE  links'[i] = links[i] \/ Changed(i)
  BY <1>0, <1>4, SetStateMoves
<1>5. ASSUME NEW w \in Workers, IssueLoad(w) PROVE links'[i] = links[i] \/ Changed(i)
  <2>1. \/ UNCHANGED links
        \/ /\ Committed(issuer[w].id) /\ links[issuer[w].id].state = "pending"
           /\ SetState(issuer[w].id, "failed") \/ SetState(issuer[w].id, "issuing")
    BY <1>5 DEF IssueLoad, Issuable
  <2>2. issuer[w].id \in Ids
    BY <1>5, IssuerFacts
  <2> QED
    BY <1>4, <2>1, <2>2, StatesAreTyped DEF Moves
<1>6. ASSUME NEW w \in Workers, IssueFails(w) PROVE links'[i] = links[i] \/ Changed(i)
  BY <1>4, <1>6, IssuerFacts, StatesAreTyped DEF IssueFails, Moves
<1>7. ASSUME NEW w \in Workers, IssueLink(w) PROVE links'[i] = links[i] \/ Changed(i)
  <2>1. /\ issuer[w].id \in Ids /\ Committed(issuer[w].id)
        /\ links[issuer[w].id].state = "issuing" /\ issuer[w].at \in 0..MaxTime
    BY <1>7, IssuerFacts
  <2>2. CASE SetState(issuer[w].id, "superseded")
    BY <1>4, <2>1, <2>2, StatesAreTyped DEF Moves
  <2>3. CASE links' = [j \in Ids |->
                 IF j = issuer[w].id THEN Issued(issuer[w].id, issuer[w].at)
                 ELSE IF j \in Current(issuer[w].id)
                 THEN [links[j] EXCEPT !.state = "superseded"]
                 ELSE links[j]]
    <3>1. SameRequest(links'[i], links[i])
      BY <1>0, <2>1, <2>3, IssuedMoves
    <3>2. CASE i = issuer[w].id
      BY <1>0, <2>1, <2>3, <3>1, <3>2, IssuedMoves DEF Moves
    <3>3. CASE i # issuer[w].id /\ i \in Current(issuer[w].id)
      <4>1. links'[i].state = "superseded"
        <5>1. links'[i] = [links[i] EXCEPT !.state = "superseded"]
          BY <2>3, <3>3
        <5> QED
          BY <1>0, <5>1 DEF TypeOK, LinkRow
      <4>2. Committed(i) /\ links[i].state = "issued"
        BY <3>3 DEF Current
      <4> QED
        BY <3>1, <4>1, <4>2 DEF Moves
    <3>4. CASE i # issuer[w].id /\ i \notin Current(issuer[w].id)
      BY <1>0, <2>1, <2>3, <3>4, IssuedMoves
    <3> QED
      BY <3>2, <3>3, <3>4
  <2> QED
    BY <1>7, <2>2, <2>3 DEF IssueLink
<1>8. ASSUME NEW b \in Browsers, ConfirmLink(b) PROVE links'[i] = links[i] \/ Changed(i)
  BY <1>4, <1>8, ConfirmFacts, StatesAreTyped DEF Moves
<1> QED
  BY <1>1, <1>2, <1>3, <1>5, <1>6, <1>7, <1>8, WhoWrites

(* A committed request stays committed, as it was asked.                   *)
LEMMA CommittedStays ==
    ASSUME IInv, [Next]_vars, NEW i \in Ids, Committed(i)
    PROVE  /\ Committed(i)'
           /\ SameRequest(links'[i], links[i])
           /\ \/ links'[i].state = links[i].state
              \/ <<links[i].state, links'[i].state>> \in Moves
<1>1. SameRequest(links[i], links[i])
  BY DEF SameRequest
<1> QED
  BY <1>1, LinkMoves DEF Committed, SameRequest

-----------------------------------------------------------------------------
(* Types                                                                   *)

LEMMA LinksType ==
    ASSUME IInv, [Next]_vars
    PROVE  links' \in [Ids -> LinkRow]
<1>0. TypeOK
  BY DEF IInv
<1>1. ASSUME NEW i \in Ids, NEW e \in Emails, NEW o \in Origins,
             NEW t \in (now - MaxDelay)..now, t >= 0, RequestLink(i, e, o, t)
      PROVE  links' \in [Ids -> LinkRow]
  BY <1>0, <1>1, RequestTime, RequestMoves
<1>2. ASSUME NEW w \in Workers, IssueLoad(w) PROVE links' \in [Ids -> LinkRow]
  BY <1>0, <1>2, IssuerFacts, SetStateMoves, StatesAreTyped DEF IssueLoad, TypeOK
<1>3. ASSUME NEW w \in Workers, IssueFails(w) PROVE links' \in [Ids -> LinkRow]
  BY <1>0, <1>3, IssuerFacts, SetStateMoves, StatesAreTyped DEF IssueFails
<1>4. ASSUME NEW w \in Workers, IssueLink(w) PROVE links' \in [Ids -> LinkRow]
  <2>1. PICK i \in Ids, t \in 0..MaxTime : i = issuer[w].id /\ t = issuer[w].at
    BY <1>4, IssuerFacts
  <2>2. \/ SetState(i, "superseded")
        \/ links' = [j \in Ids |->
                 IF j = i THEN Issued(i, t)
                 ELSE IF j \in Current(i) THEN [links[j] EXCEPT !.state = "superseded"]
                 ELSE links[j]]
    BY <1>4, <2>1 DEF IssueLink
  <2> QED
    BY <1>0, <2>2, SetStateMoves, IssuedMoves, StatesAreTyped
<1>5. ASSUME NEW b \in Browsers, ConfirmLink(b) PROVE links' \in [Ids -> LinkRow]
  BY <1>0, <1>5, ConfirmFacts, SetStateMoves, StatesAreTyped
<1> QED
  BY <1>0, <1>1, <1>2, <1>3, <1>4, <1>5, CommitMoves, RollbackMoves, WhoWrites DEF TypeOK

LEMMA IssuerTypes ==
    ASSUME IInv, NEW w \in Workers, IssuerStep(w)
    PROVE  issuer' \in [Workers -> IssueCall] /\ jobs' \subseteq Ids /\ sent' \subseteq Ids
<1>0. TypeOK
  BY DEF IInv
<1>1. ASSUME NEW i \in Ids, BeginIssue(w, i)
      PROVE  issuer' \in [Workers -> IssueCall] /\ UNCHANGED <<jobs, sent>>
  BY <1>0, <1>1 DEF BeginIssue, TypeOK, IssueCall
<1>2. CASE IssueLoad(w)
  BY <1>0, <1>2, IssuerMoves, JobOverMoves DEF IssueLoad, JobOver, TypeOK
<1>3. CASE ProviderAnswers(w)
  <2>1. issuer[w].id \in Ids
    BY <1>3, IssuerFacts
  <2> QED
    BY <1>0, <1>3, <2>1, IssuerMoves DEF ProviderAnswers, TypeOK
<1>4. CASE IssueFails(w) \/ IssueLink(w)
  BY <1>0, <1>4, JobOverMoves DEF IssueFails, IssueLink, JobOver, TypeOK
<1>5. CASE IssuerCrash(w)
  BY <1>0, <1>5, JobOverMoves DEF IssuerCrash, TypeOK
<1> QED
  BY <1>0, <1>1, <1>2, <1>3, <1>4, <1>5 DEF IssuerStep, TypeOK

(* A browser moves on with what the provider proved.                       *)
LEMMA BrowserTypes ==
    ASSUME IInv, NEW b \in Browsers, BrowserStep(b)
    PROVE  browser' \in [Browsers -> ConfirmCall] /\ BrowsersAreNamed'
<1>0. TypeOK /\ BrowsersAreNamed
  BY DEF IInv
<1>1. ASSUME NEW i \in Ids, ConfirmStart(b, i)
      PROVE  browser' \in [Browsers -> ConfirmCall] /\ BrowsersAreNamed'
  <2>1. now \in 0..MaxTime
    BY <1>0 DEF TypeOK
  <2> DEFINE call == [BrowserIdle EXCEPT !.pc = "verify", !.id = i, !.at = now]
  <2>2. call \in ConfirmCall /\ call.pc = "verify" /\ call.id = i
    BY <2>1, RecordTypes DEF ConfirmCall
  <2>3. browser' = [browser EXCEPT ![b] = call]
    BY <1>1 DEF ConfirmStart
  <2> HIDE DEF call
  <2> QED
    BY <1>0, <2>2, <2>3 DEF TypeOK, BrowsersAreNamed
<1>2. ASSUME NEW s \in Subjects, NEW e \in Emails, VerifyLink(b, s, e)
      PROVE  browser' \in [Browsers -> ConfirmCall] /\ BrowsersAreNamed'
  <2>1. browser[b] \in ConfirmCall /\ browser[b].id \in Ids
    BY <1>0, <1>2 DEF VerifyLink, TypeOK, BrowsersAreNamed
  <2> DEFINE call == [browser[b] EXCEPT !.pc = "final", !.subject = s, !.email = e]
  <2>2. /\ call \in ConfirmCall /\ call.pc = "final" /\ call.id = browser[b].id
        /\ call.subject = s /\ call.email = e
    BY <2>1 DEF ConfirmCall
  <2>3. browser' = [browser EXCEPT ![b] = call]
    BY <1>0, <1>2, <2>1 DEF VerifyLink, TypeOK, ConfirmCall
  <2> HIDE DEF call
  <2> QED
    BY <1>0, <2>1, <2>2, <2>3 DEF TypeOK, BrowsersAreNamed
<1>3. CASE ConfirmLink(b) \/ ConfirmRefused(b)
  <2>1. browser' = [browser EXCEPT ![b] = BrowserIdle]
    BY <1>3 DEF ConfirmLink, ConfirmRefused
  <2> QED
    BY <1>0, <2>1, RecordTypes DEF TypeOK, BrowsersAreNamed
<1> QED
  BY <1>1, <1>2, <1>3 DEF BrowserStep

LEMMA TypeStep ==
    ASSUME IInv, [Next]_vars
    PROVE  TypeOK' /\ BrowsersAreNamed'
<1>0. TypeOK /\ BrowsersAreNamed
  BY DEF IInv
<1>1. browser' \in [Browsers -> ConfirmCall] /\ BrowsersAreNamed'
  BY <1>0, BrowserTypes, WhoWrites DEF TypeOK, BrowsersAreNamed
<1>2. now' \in 0..MaxTime
  <2>1. ASSUME Tick PROVE now' \in 0..MaxTime
    <3>1. now \in 0..MaxTime /\ MaxTime \in Nat /\ now < MaxTime /\ now' = now + 1
      BY <1>0, <2>1, LinkAssumption DEF Tick, TypeOK
    <3> QED
      BY <3>1
  <2> QED
    BY <1>0, <2>1, WhoWrites DEF TypeOK
<1>3. /\ account' \in [Subjects -> Emails \cup {Nobody}]
      /\ session' \in [Ids -> Emails \cup {Nobody}]
  <2>1. ASSUME NEW b \in Browsers, ConfirmLink(b)
        PROVE  /\ account' \in [Subjects -> Emails \cup {Nobody}]
               /\ session' \in [Ids -> Emails \cup {Nobody}]
    BY <1>0, <2>1, ConfirmFacts DEF TypeOK
  <2> QED
    BY <1>0, <2>1, WhoWrites DEF TypeOK
<1>4. /\ invitation' \in [Emails -> {"none", "active", "accepted"}]
      /\ user' \in [Emails -> {"none", "active", "disabled"}]
  <2>1. ASSUME NEW b \in Browsers, ConfirmLink(b)
        PROVE  /\ invitation' \in [Emails -> {"none", "active", "accepted"}]
               /\ user' \in [Emails -> {"none", "active", "disabled"}]
    BY <1>0, <2>1 DEF ConfirmLink, AcceptInvitation, TypeOK
  <2>2. ASSUME NEW e \in Emails, PreloadInvitation(e)
        PROVE  /\ invitation' \in [Emails -> {"none", "active", "accepted"}]
               /\ user' \in [Emails -> {"none", "active", "disabled"}]
    BY <1>0, <2>2 DEF PreloadInvitation, TypeOK
  <2>3. ASSUME NEW e \in Emails, NEW s \in {"active", "disabled"}, ChangeUserStatus(e, s)
        PROVE  /\ invitation' \in [Emails -> {"none", "active", "accepted"}]
               /\ user' \in [Emails -> {"none", "active", "disabled"}]
    BY <1>0, <2>3 DEF ChangeUserStatus, TypeOK
  <2> QED
    BY <1>0, <2>1, <2>2, <2>3, WhoWrites DEF TypeOK
<1>5. issuer' \in [Workers -> IssueCall] /\ jobs' \subseteq Ids /\ sent' \subseteq Ids
  <2>1. ASSUME NEW i \in Ids, RequestStep(i) PROVE jobs' \subseteq Ids /\ UNCHANGED <<issuer, sent>>
    BY <1>0, <2>1 DEF RequestStep, RequestLink, CommitRequest, RollbackRequest, TypeOK
  <2>2. ASSUME NEW b \in Browsers, BrowserStep(b) PROVE UNCHANGED <<issuer, jobs, sent>>
    BY <2>2 DEF BrowserStep, ConfirmStart, VerifyLink, ConfirmLink, ConfirmRefused
  <2>3. ASSUME \/ \E e \in Emails : PreloadInvitation(e)
               \/ \E e \in Emails, s \in {"active", "disabled"} : ChangeUserStatus(e, s)
               \/ Tick \/ UNCHANGED vars
        PROVE  UNCHANGED <<issuer, jobs, sent>>
    BY <2>3 DEF PreloadInvitation, ChangeUserStatus, Tick, vars
  <2> QED
    BY <1>0, <2>1, <2>2, <2>3, IssuerTypes DEF Next, TypeOK
<1> QED
  BY <1>1, <1>2, <1>3, <1>4, <1>5, LinksType DEF TypeOK

-----------------------------------------------------------------------------
(* The parts of the invariant                                              *)

LEMMA RequestsStep ==
    ASSUME IInv, [Next]_vars
    PROVE  RequestsAreNamed'
<1>1. ASSUME NEW i \in Ids
      PROVE  /\ links'[i].row \in {"open", "committed"} =>
                   links'[i].email \in Emails /\ links'[i].origin \in Origins
             /\ links'[i].row # "committed" => links'[i].state \in {"none", "pending", "failed"}
  <2>1. /\ links[i].row \in {"open", "committed"} =>
              links[i].email \in Emails /\ links[i].origin \in Origins
        /\ links[i].row # "committed" => links[i].state \in {"none", "pending", "failed"}
    BY DEF IInv, RequestsAreNamed
  <2> QED
    BY <2>1, LinkMoves DEF Committed, SameRequest
<1> QED
  BY <1>1 DEF RequestsAreNamed

LEMMA UsedStep ==
    ASSUME IInv, [Next]_vars
    PROVE  IsFiniteSet(Used')
<1>0. TypeOK /\ IsFiniteSet(Used)
  BY DEF IInv
<1>1. ASSUME NEW i \in Ids, NEW e \in Emails, NEW o \in Origins,
             NEW t \in (now - MaxDelay)..now, t >= 0, RequestLink(i, e, o, t)
      PROVE  IsFiniteSet(Used')
  <2>1. Used' \subseteq Used \cup {i}
    BY <1>0, <1>1, RequestTime, RequestMoves DEF Used
  <2>2. IsFiniteSet(Used \cup {i})
    BY <1>0, FS_AddElement
  <2> QED
    BY <2>1, <2>2, FS_Subset
<1>2. ASSUME \A j \in Ids : links[j].row = "absent" => links'[j].row = "absent"
      PROVE  IsFiniteSet(Used')
  <2>1. Used' \subseteq Used
    BY <1>2 DEF Used
  <2> QED
    BY <1>0, <2>1, FS_Subset
<1>3. ASSUME \E i \in Ids : CommitRequest(i) \/ RollbackRequest(i)
      PROVE  IsFiniteSet(Used')
  BY <1>0, <1>2, <1>3, CommitMoves, RollbackMoves DEF CommitRequest, RollbackRequest
<1>4. ASSUME NEW w \in Workers, IssueLoad(w) \/ IssueFails(w) \/ IssueLink(w)
      PROVE  \A j \in Ids : links[j].row = "absent" => links'[j].row = "absent"
  <2>1. PICK i \in Ids, t \in 0..MaxTime : i = issuer[w].id /\ t = issuer[w].at
    BY <1>4, IssuerFacts
  <2>2. \/ UNCHANGED links
        \/ \E s \in AttemptStates : SetState(i, s)
        \/ links' = [j \in Ids |->
                 IF j = i THEN Issued(i, t)
                 ELSE IF j \in Current(i) THEN [links[j] EXCEPT !.state = "superseded"]
                 ELSE links[j]]
    BY <1>4, <2>1, StatesAreTyped DEF IssueLoad, IssueFails, IssueLink
  <2> QED
    BY <1>0, <2>2, SetStateMoves, IssuedMoves DEF SameRequest
<1>5. ASSUME NEW b \in Browsers, ConfirmLink(b)
      PROVE  \A j \in Ids : links[j].row = "absent" => links'[j].row = "absent"
  BY <1>0, <1>5, ConfirmFacts, SetStateMoves, StatesAreTyped DEF SameRequest
<1> QED
  BY <1>1, <1>2, <1>3, <1>4, <1>5, WhoWrites

(* A worker that is past its first transaction took its link from pending  *)
(* in this step, or had it and no other step touched it.                   *)
LEMMA IssuersStep ==
    ASSUME IInv, [Next]_vars
    PROVE  IssuersOwn'
<1>0. TypeOK /\ IssuersOwn
  BY DEF IInv
<1> DEFINE
      Kept(w) == issuer'[w].pc \in Issuing => issuer[w].pc \in Issuing /\ issuer'[w].id = issuer[w].id
      Named(w) == issuer'[w].pc # "idle" => issuer'[w].id \in Ids
      Alone(w) == \A x \in Workers : x # w => issuer'[x] = issuer[x]
(* What the step of a worker does to it and to the links of the others.    *)
<1>1. ASSUME NEW w \in Workers, IssuerStep(w)
      PROVE  /\ Alone(w) /\ Named(w)
             /\ \/ /\ Kept(w)
                   /\ \/ UNCHANGED links
                      \/ issuer'[w].pc = "idle"
                \/ /\ issuer'[w].pc = "provider" /\ issuer'[w].id = issuer[w].id
                   /\ issuer[w].id \in Ids /\ Issuable(issuer[w].id)
                   /\ SetState(issuer[w].id, "issuing")
  <2>1. ASSUME NEW i \in Ids, BeginIssue(w, i)
        PROVE  issuer'[w].pc = "load" /\ issuer'[w].id = i /\ Alone(w) /\ UNCHANGED links
    BY <1>0, <2>1 DEF BeginIssue, TypeOK
  <2>2. CASE IssueLoad(w)
    <3>1. CASE JobOver(w)
      BY <1>0, <3>1, JobOverMoves DEF JobOver, Issuing
    <3>2. CASE ~JobOver(w)
      <4>1. /\ Issuable(issuer[w].id) /\ SetState(issuer[w].id, "issuing")
            /\ IssuerAt(w, "provider")
        BY <2>2, <3>2 DEF IssueLoad
      <4> QED
        BY <1>0, <2>2, <4>1, IssuerMoves, IssuerFacts
    <3> QED
      BY <3>1, <3>2
  <2>3. CASE ProviderAnswers(w)
    <3>1. IssuerAt(w, "fail") \/ IssuerAt(w, "final")
      BY <2>3 DEF ProviderAnswers
    <3>2. UNCHANGED links /\ issuer[w].pc \in Issuing /\ issuer[w].id \in Ids
      BY <2>3, IssuerFacts DEF ProviderAnswers
    <3> QED
      BY <1>0, <3>1, <3>2, IssuerMoves
  <2>4. CASE IssueFails(w) \/ IssueLink(w) \/ IssuerCrash(w)
    <3>1. issuer' = [issuer EXCEPT ![w] = IssuerIdle]
      BY <2>4 DEF IssueFails, IssueLink, IssuerCrash, JobOver
    <3> QED
      BY <1>0, <3>1, JobOverMoves DEF Issuing
  <2>5. "load" \notin Issuing
    BY DEF Issuing
  <2> QED
    BY <1>1, <2>1, <2>2, <2>3, <2>4, <2>5 DEF IssuerStep
(* Nobody but the owner moves a link that is being issued.                 *)
<1>2. ASSUME NEW w \in Workers, issuer[w].pc \in Issuing, issuer'[w] = issuer[w]
      PROVE  Committed(issuer[w].id)' /\ links'[issuer[w].id].state = "issuing"
  <2>1. PICK i \in Ids : i = issuer[w].id /\ Committed(i) /\ links[i].state = "issuing"
    BY <1>0, <1>2 DEF IssuersOwn, Issuing
  <2>2. Committed(i)'
    BY <2>1, CommittedStays
  <2>3. links'[i].state = "issuing"
    <3>1. ASSUME NEW v \in Workers, IssueFails(v) \/ IssueLink(v) PROVE v # w
      <4>1. issuer' = [issuer EXCEPT ![v] = IssuerIdle]
        BY <3>1 DEF IssueFails, IssueLink, JobOver
      <4>2. issuer'[v].pc = "idle"
        BY <1>0, <4>1, JobOverMoves
      <4> QED
        BY <1>2, <4>2 DEF Issuing
    <3>2. ASSUME NEW v \in Workers, IssueFails(v) \/ IssueLink(v)
          PROVE  issuer[v].id # i /\ issuer[v].id \in Ids
      BY <1>0, <1>2, <2>1, <3>1, <3>2, IssuerFacts DEF IssuersOwn
    <3>3. ASSUME NEW v \in Workers, IssueFails(v) PROVE links'[i] = links[i]
      BY <1>0, <3>2, <3>3, SetStateMoves, StatesAreTyped DEF IssueFails
    <3>4. ASSUME NEW v \in Workers, IssueLink(v) PROVE links'[i] = links[i]
      <4>1. i \notin Current(issuer[v].id)
        BY <2>1 DEF Current
      <4>2. \/ SetState(issuer[v].id, "superseded")
            \/ links'[i] = links[i]
        BY <3>2, <3>4, <4>1 DEF IssueLink
      <4> QED
        BY <1>0, <3>2, <3>4, <4>2, SetStateMoves, StatesAreTyped
    <3>5. ASSUME NEW v \in Workers, IssueLoad(v) PROVE links'[i] = links[i]
      <4>1. \/ UNCHANGED links
            \/ /\ links[issuer[v].id].state = "pending"
               /\ SetState(issuer[v].id, "failed") \/ SetState(issuer[v].id, "issuing")
        BY <3>5 DEF IssueLoad, Issuable
      <4> QED
        BY <1>0, <2>1, <3>5, <4>1, IssuerFacts, SetStateMoves, StatesAreTyped
    <3>6. ASSUME NEW b \in Browsers, ConfirmLink(b) PROVE links'[i] = links[i]
      BY <1>0, <2>1, <3>6, ConfirmFacts, SetStateMoves, StatesAreTyped
    <3>7. ASSUME NEW x \in Ids, NEW e \in Emails, NEW o \in Origins,
                 NEW t \in (now - MaxDelay)..now, t >= 0, RequestLink(x, e, o, t)
          PROVE  links'[i] = links[i]
      <4>1. x # i
        BY <2>1, <3>7 DEF RequestLink, Committed
      <4> QED
        BY <1>0, <3>7, <4>1, RequestTime, RequestMoves
    <3>8. ASSUME NEW x \in Ids, CommitRequest(x) \/ RollbackRequest(x)
          PROVE  links'[i] = links[i]
      <4>1. x # i
        BY <2>1, <3>8 DEF CommitRequest, RollbackRequest, Committed
      <4> QED
        BY <1>0, <3>8, <4>1, CommitMoves, RollbackMoves
    <3> QED
      BY <2>1, <3>3, <3>4, <3>5, <3>6, <3>7, <3>8, WhoWrites
  <2> QED
    BY <2>1, <2>2, <2>3, <1>2 DEF Committed
<1> HIDE DEF Kept, Named, Alone
<1>3. CASE UNCHANGED issuer
  <2>1. \A w \in Workers : issuer[w].pc \in Issuing =>
            Committed(issuer[w].id)' /\ links'[issuer[w].id].state = "issuing"
    BY <1>2, <1>3
  <2> QED
    BY <1>0, <1>3, <2>1 DEF IssuersOwn, Committed
<1>4. ASSUME NEW w \in Workers, IssuerStep(w) PROVE IssuersOwn'
  <2>1. \A x \in Workers : x # w => issuer'[x] = issuer[x]
    BY <1>4, <1>1 DEF Alone
  <2>2. issuer'[w].pc # "idle" => issuer'[w].id \in Ids
    BY <1>4, <1>1 DEF Named
  <2>3. \A x \in Workers : x # w /\ issuer[x].pc \in Issuing =>
            links'[issuer[x].id].row = "committed" /\ links'[issuer[x].id].state = "issuing"
    BY <1>2, <2>1 DEF Committed
  <2>4. CASE issuer'[w].pc \notin Issuing
    BY <1>0, <2>1, <2>2, <2>3, <2>4 DEF IssuersOwn, Committed
  <2>5. CASE /\ issuer[w].pc \in Issuing /\ issuer'[w].id = issuer[w].id /\ UNCHANGED links
             /\ issuer'[w].pc \in Issuing
    BY <1>0, <2>1, <2>2, <2>3, <2>5 DEF IssuersOwn, Committed
  <2>6. CASE /\ issuer'[w].pc = "provider" /\ issuer'[w].id = issuer[w].id
             /\ issuer[w].id \in Ids /\ Issuable(issuer[w].id)
             /\ SetState(issuer[w].id, "issuing")
    <3>1. links'[issuer[w].id].row = "committed" /\ links'[issuer[w].id].state = "issuing"
      BY <1>0, <2>6, SetStateMoves, StatesAreTyped DEF Issuable, Committed, SameRequest
    <3>2. \A x \in Workers : x # w /\ issuer[x].pc \in Issuing => issuer[x].id # issuer[w].id
      BY <1>0, <2>6 DEF IssuersOwn, Issuable
    <3> QED
      BY <1>0, <2>1, <2>2, <2>3, <2>6, <3>1, <3>2 DEF IssuersOwn, Committed
  <2>7. "idle" \notin Issuing
    BY DEF Issuing
  <2> QED
    BY <1>1, <1>4, <2>4, <2>5, <2>6, <2>7 DEF Kept
<1> QED
  BY <1>3, <1>4, WhoWrites

(* Only a confirmation consumes a link, only issuing another supersedes it.*)
LEMMA WhoEnds ==
    ASSUME IInv, [Next]_vars, NEW i \in Ids, links'[i].state # links[i].state
    PROVE  /\ links'[i].state = "consumed" => \E b \in Browsers : ConfirmLink(b) /\ browser[b].id = i
           /\ links'[i].state = "superseded" => \E w \in Workers : IssueLink(w)
<1>0. TypeOK
  BY DEF IInv
<1>1. ASSUME NEW x \in Ids, NEW e \in Emails, NEW o \in Origins,
             NEW t \in (now - MaxDelay)..now, t >= 0, RequestLink(x, e, o, t)
      PROVE  links'[i].state \notin {"consumed", "superseded"}
  BY <1>0, <1>1, RequestTime, RequestMoves
<1>2. ASSUME NEW x \in Ids, CommitRequest(x) \/ RollbackRequest(x)
      PROVE  links'[i].state \notin {"consumed", "superseded"}
  BY <1>0, <1>2, CommitMoves, RollbackMoves
<1>3. ASSUME NEW w \in Workers, IssueLoad(w) \/ IssueFails(w)
      PROVE  links'[i].state \notin {"consumed", "superseded"}
  <2>1. UNCHANGED links \/ SetState(issuer[w].id, "failed") \/ SetState(issuer[w].id, "issuing")
    BY <1>3 DEF IssueLoad, IssueFails
  <2>2. issuer[w].id \in Ids
    BY <1>3, IssuerFacts
  <2> QED
    BY <1>0, <2>1, <2>2, SetStateMoves, StatesAreTyped
<1>4. ASSUME NEW w \in Workers, IssueLink(w) PROVE links'[i].state # "consumed"
  <2>1. PICK x \in Ids, t \in 0..MaxTime : x = issuer[w].id /\ t = issuer[w].at
    BY <1>4, IssuerFacts
  <2>2. CASE SetState(x, "superseded")
    BY <1>0, <2>2, SetStateMoves, StatesAreTyped
  <2>3. CASE links' = [j \in Ids |->
                 IF j = x THEN Issued(x, t)
                 ELSE IF j \in Current(x) THEN [links[j] EXCEPT !.state = "superseded"]
                 ELSE links[j]]
    <3>1. /\ links'[x].state = "issued"
          /\ i # x /\ i \in Current(x) => links'[i].state = "superseded"
          /\ i # x /\ i \notin Current(x) => links'[i] = links[i]
      BY <1>0, <2>3, IssuedMoves
    <3> QED
      BY <3>1
  <2> QED
    BY <1>4, <2>1, <2>2, <2>3 DEF IssueLink
<1>5. ASSUME NEW b \in Browsers, ConfirmLink(b)
      PROVE  browser[b].id = i /\ links'[i].state = "consumed"
  BY <1>0, <1>5, ConfirmFacts, SetStateMoves, StatesAreTyped
<1> QED
  BY <1>1, <1>2, <1>3, <1>4, <1>5, WhoWrites

LEMMA SessionStep ==
    ASSUME IInv, [Next]_vars
    PROVE  SessionMatchesLink'
<1>0. TypeOK /\ SessionMatchesLink
  BY DEF IInv
<1>1. ASSUME NEW b \in Browsers, ConfirmLink(b), NEW i \in Ids
      PROVE  session'[i] = IF links'[i].state = "consumed" THEN links'[i].email ELSE Nobody
  <2>1. CASE i = browser[b].id
    <3>1. session'[i] = browser[b].email
      BY <1>0, <1>1, <2>1, ConfirmFacts DEF TypeOK
    <3>2. links'[i].state = "consumed" /\ links'[i].email = browser[b].email
      BY <1>0, <1>1, <2>1, ConfirmFacts, SetStateMoves, StatesAreTyped DEF SameRequest
    <3> QED
      BY <3>1, <3>2
  <2>2. CASE i # browser[b].id
    BY <1>0, <1>1, <2>2, ConfirmFacts, SetStateMoves, StatesAreTyped DEF TypeOK, SessionMatchesLink
  <2> QED
    BY <2>1, <2>2
<1>2. ASSUME ~ \E b \in Browsers : ConfirmLink(b), NEW i \in Ids
      PROVE  session'[i] = IF links'[i].state = "consumed" THEN links'[i].email ELSE Nobody
  <2>1. session'[i] = session[i]
    BY <1>2, WhoWrites
  <2>2. links'[i].state = "consumed" => links[i].state = "consumed"
    BY <1>2, WhoEnds
  <2>3. links[i].state = "consumed" =>
            links'[i].state = "consumed" /\ links'[i].email = links[i].email
    <3>1. links[i].state = "consumed" => Committed(i)
      BY DEF IInv, RequestsAreNamed, Committed
    <3> QED
      BY <3>1, CommittedStays DEF Moves, SameRequest
  <2>4. session[i] = IF links[i].state = "consumed" THEN links[i].email ELSE Nobody
    BY <1>0 DEF SessionMatchesLink
  <2> QED
    BY <2>1, <2>2, <2>3, <2>4
<1> QED
  BY <1>1, <1>2 DEF SessionMatchesLink

(* One of two requests is the newer.                                       *)
LEMMA NewerTotal ==
    ASSUME TypeOK, NEW i \in Ids, NEW j \in Ids, i # j, ~Newer(i, j)
    PROVE  Newer(j, i)
<1>1. links[i].at \in Nat /\ links[j].at \in Nat
  BY LinkAssumption DEF TypeOK, LinkRow
<1>2. i \in Nat /\ j \in Nat
  BY LinkAssumption
<1> QED
  BY <1>1, <1>2 DEF Newer

LEMMA NewerStep ==
    ASSUME IInv, [Next]_vars
    PROVE  NewerLinkWins'
<1>0. TypeOK
  BY DEF IInv
<1> DEFINE Beats(j, i) ==
      /\ Committed(j) /\ SameSubject(i, j) /\ Newer(j, i)
      /\ links[j].state \in {"issued", "consumed", "superseded"}
<1>1. ASSUME NEW i \in Ids, NEW j \in Ids, Committed(i), Beats(j, i)
      PROVE  Beats(j, i)'
  <2>1. Committed(j)' /\ SameRequest(links'[j], links[j]) /\ SameRequest(links'[i], links[i])
    BY <1>1, CommittedStays
  <2>2. links'[j].state \in {"issued", "consumed", "superseded"}
    BY <1>1, CommittedStays DEF Moves
  <2> QED
    BY <1>1, <2>1, <2>2 DEF SameRequest, SameSubject, Newer, Committed
<1>2. ASSUME NEW i \in Ids, links'[i].state = "superseded"
      PROVE  \E j \in Ids : Beats(j, i)'
  <2>1. CASE links[i].state = "superseded"
    <3>1. Committed(i)
      BY <2>1 DEF IInv, RequestsAreNamed, Committed
    <3>2. PICK j \in Ids : Beats(j, i)
      BY <2>1 DEF IInv, NewerLinkWins
    <3> HIDE DEF Beats
    <3> QED
      BY <1>1, <3>1, <3>2
  <2>2. CASE links[i].state # "superseded"
    <3>1. PICK w \in Workers : IssueLink(w)
      BY <1>2, <2>2, WhoEnds
    <3>2. PICK x \in Ids, t \in 0..MaxTime :
             x = issuer[w].id /\ t = issuer[w].at /\ Committed(x) /\ links[x].state = "issuing"
      BY <3>1, IssuerFacts
    <3>3. CASE \E j \in Current(x) : ~Newer(x, j) /\ SetState(x, "superseded")
      <4>1. i = x
        BY <1>0, <1>2, <2>2, <3>3, SetStateMoves, StatesAreTyped
      <4>2. PICK j \in Current(x) : ~Newer(x, j)
        BY <3>3
      <4>3. j \in Ids /\ j # x /\ Committed(j) /\ SameSubject(x, j) /\ links[j].state = "issued"
        BY <4>2 DEF Current
      <4>4. Newer(j, x)
        BY <1>0, <4>2, <4>3, NewerTotal
      <4>5. Beats(j, i) /\ Committed(i)
        BY <3>2, <4>1, <4>3, <4>4
      <4> HIDE DEF Beats
      <4> QED
        BY <1>1, <4>3, <4>5
    <3>4. CASE /\ \A j \in Current(x) : Newer(x, j)
               /\ links' = [j \in Ids |->
                   IF j = x THEN Issued(x, t)
                   ELSE IF j \in Current(x) THEN [links[j] EXCEPT !.state = "superseded"]
                   ELSE links[j]]
      <4>1. /\ links'[x].state = "issued"
            /\ SameRequest(links'[x], links[x]) /\ SameRequest(links'[i], links[i])
            /\ i # x /\ i \notin Current(x) => links'[i] = links[i]
        BY <1>0, <3>4, IssuedMoves
      <4>2. i \in Current(x)
        BY <1>2, <2>2, <4>1
      <4>3. Newer(x, i) /\ SameSubject(x, i)
        BY <3>4, <4>2 DEF Current
      <4>4. Beats(x, i)'
        BY <3>2, <4>1, <4>3 DEF SameRequest, SameSubject, Newer, Committed
      <4> QED
        BY <4>4
    <3> QED
      BY <3>1, <3>2, <3>3, <3>4 DEF IssueLink
  <2> QED
    BY <2>1, <2>2
<1> QED
  BY <1>2 DEF NewerLinkWins

-----------------------------------------------------------------------------
(* The limiter                                                             *)

LEMMA RecentFacts ==
    ASSUME IInv, NEW field, NEW value, NEW t
    PROVE  /\ Recent(field, value, t) = Cardinality(RecentOf(field, value, t))
           /\ IsFiniteSet(RecentOf(field, value, t))
           /\ Recent(field, value, t) \in Nat
           /\ IsFiniteSet(Admitted(field, value, t))
           /\ Cardinality(Admitted(field, value, t)) \in Nat
<1>1. Recent(field, value, t) = Cardinality(RecentOf(field, value, t))
  BY DEF Recent, RecentOf
<1>2. RecentOf(field, value, t) \subseteq Used /\ Admitted(field, value, t) \subseteq Used
  BY DEF RecentOf, Admitted, Used, Committed
<1>3. IsFiniteSet(RecentOf(field, value, t)) /\ IsFiniteSet(Admitted(field, value, t))
  BY <1>2, FS_Subset DEF IInv
<1> QED
  BY <1>1, <1>3, FS_CardinalityType

(* The row of a committed request keeps what the limiter looks at.         *)
LEMMA FieldsStay ==
    ASSUME IInv, [Next]_vars, NEW x \in Ids, Committed(x), NEW field \in {"email", "origin"}
    PROVE  /\ Committed(x)' /\ links'[x][field] = links[x][field]
           /\ links'[x].at = links[x].at /\ links'[x].decision = links[x].decision
BY CommittedStays DEF SameRequest

(* Nothing is added to what was counted unless a request with that email,  *)
(* or that origin, commits.                                                *)
LEMMA RecentSame ==
    ASSUME IInv, [Next]_vars, NEW field \in {"email", "origin"}, NEW value, NEW t,
           \A x \in Ids : links[x].row = "open" /\ links'[x].row = "committed" =>
                             links[x][field] # value
    PROVE  Recent(field, value, t)' = Recent(field, value, t)
<1>1. ASSUME NEW x \in Ids, Committed(x)', ~Committed(x) PROVE links'[x][field] # value
  <2>1. /\ links[x].row = "open" /\ links'[x].row = "committed"
        /\ links'[x].email = links[x].email /\ links'[x].origin = links[x].origin
    BY <1>1, LinkMoves DEF Committed, SameRequest
  <2> QED
    BY <2>1
<1>2. \A x \in Ids : Committed(x) =>
          Committed(x)' /\ links'[x][field] = links[x][field] /\ links'[x].at = links[x].at
  BY FieldsStay
<1>3. RecentOf(field, value, t)' = RecentOf(field, value, t)
  BY <1>1, <1>2 DEF RecentOf
<1>4. Recent(field, value, t)' = Cardinality(RecentOf(field, value, t)')
  BY DEF Recent, RecentOf
<1> QED
  BY <1>3, <1>4, RecentFacts

LEMMA LimiterStep ==
    ASSUME IInv, [Next]_vars
    PROVE  LimiterHolds'
<1>0. TypeOK /\ LimiterHolds
  BY DEF IInv
<1> DEFINE
      Alone(i) == \A j \in Ids \ {i} : links'[j].row = "open" =>
              links'[j].email # links'[i].email /\ links'[j].origin # links'[i].origin
      Within(i) == links'[i].decision # "limited" =>
              /\ Recent("email", links[i].email, links[i].at)' < EmailLimit
              /\ Recent("origin", links[i].origin, links[i].at)' < OriginLimit
(* A request that stays open: the others are not in its way, and none of   *)
(* them commits with its email or origin.                                  *)
<1>1. ASSUME NEW i \in Ids, links[i].row = "open", links'[i] = links[i]
      PROVE  Within(i)
  <2>1. PICK e, o, t : e = links[i].email /\ o = links[i].origin /\ t = links[i].at
    OBVIOUS
  <2>2. \A x \in Ids : links[x].row = "open" /\ links'[x].row = "committed" =>
            links[x].email # e /\ links[x].origin # o
    BY <1>0, <1>1, <2>1 DEF LimiterHolds
  <2>3. /\ Recent("email", e, t)' = Recent("email", e, t)
        /\ Recent("origin", o, t)' = Recent("origin", o, t)
    BY <2>2, RecentSame
  <2>4. links[i].decision # "limited" =>
          Recent("email", e, t) < EmailLimit /\ Recent("origin", o, t) < OriginLimit
    BY <1>0, <1>1, <2>1 DEF LimiterHolds
  <2>5. /\ Recent("email", links[i].email, links[i].at)' = Recent("email", e, t)'
        /\ Recent("origin", links[i].origin, links[i].at)' = Recent("origin", o, t)'
    BY <1>1, <2>1 DEF Recent, Committed
  <2> QED
    BY <1>1, <2>3, <2>4, <2>5
(* A new request: it holds both locks, and decided on what there is.       *)
<1>2. ASSUME NEW i \in Ids, NEW e \in Emails, NEW o \in Origins,
             NEW t \in (now - MaxDelay)..now, t >= 0, RequestLink(i, e, o, t)
      PROVE  LimiterHolds'
  <2>1. /\ links'[i].row = "open" /\ links'[i].email = e /\ links'[i].origin = o
        /\ links'[i].at = t /\ links'[i].decision = Decision(e, o, t)
        /\ \A j \in Ids : j # i => links'[j] = links[j]
    BY <1>0, <1>2, RequestTime, RequestMoves
  <2>2. links[i].row = "absent" /\ LimiterFree(e, o)
    BY <1>2 DEF RequestLink
  <2>3. Alone(i)
    BY <2>1, <2>2 DEF LimiterFree
  <2>4. /\ Recent("email", e, t)' = Recent("email", e, t)
        /\ Recent("origin", o, t)' = Recent("origin", o, t)
    BY <2>1, <2>2, RecentSame
  <2>5. Decision(e, o, t) # "limited" =>
          Recent("email", e, t) < EmailLimit /\ Recent("origin", o, t) < OriginLimit
    <3>1. Recent("email", e, t) \in Nat /\ Recent("origin", o, t) \in Nat
          /\ EmailLimit \in Nat /\ OriginLimit \in Nat
      BY RecentFacts, LinkAssumption
    <3>2. Decision(e, o, t) # "limited" =>
            ~ (Recent("email", e, t) >= EmailLimit \/ Recent("origin", o, t) >= OriginLimit)
      BY DEF Decision
    <3> QED
      BY <3>1, <3>2
  <2>6. /\ Recent("email", links[i].email, links[i].at)' = Recent("email", e, t)'
        /\ Recent("origin", links[i].origin, links[i].at)' = Recent("origin", o, t)'
    BY <2>1 DEF Recent, Committed
  <2>7. Within(i)
    BY <2>1, <2>4, <2>5, <2>6
  <2>8. ASSUME NEW j \in Ids, j # i, links'[j].row = "open" PROVE Alone(j) /\ Within(j)
    <3>1. links'[j] = links[j]
      BY <2>1, <2>8
    <3>2. Within(j)
      BY <1>1, <2>8, <3>1
    <3>3. Alone(j)
      BY <1>0, <2>1, <2>2, <2>8, <3>1 DEF LimiterHolds, LimiterFree
    <3> QED
      BY <3>2, <3>3
  <2> QED
    BY <2>3, <2>7, <2>8 DEF LimiterHolds
<1>3. ASSUME ~ \E i \in Ids, e \in Emails, o \in Origins, t \in (now - MaxDelay)..now :
                 t >= 0 /\ RequestLink(i, e, o, t)
      PROVE  LimiterHolds'
  <2>1. ASSUME NEW i \in Ids, links'[i].row = "open"
        PROVE  links[i].row = "open" /\ links'[i] = links[i]
    <3>1. links[i].row # "absent" \/ links'[i] = links[i]
      <4>1. ASSUME NEW x \in Ids, CommitRequest(x) \/ RollbackRequest(x)
            PROVE  links[i].row # "absent" \/ links'[i] = links[i]
        BY <1>0, <4>1, CommitMoves, RollbackMoves DEF CommitRequest, RollbackRequest
      <4>2. ASSUME NEW w \in Workers, IssueLoad(w) \/ IssueFails(w) \/ IssueLink(w)
            PROVE  SameRequest(links'[i], links[i])
        <5>1. PICK x \in Ids, t \in 0..MaxTime : x = issuer[w].id /\ t = issuer[w].at
          BY <4>2, IssuerFacts
        <5>2. \/ UNCHANGED links
              \/ \E s \in AttemptStates : SetState(x, s)
              \/ links' = [j \in Ids |->
                   IF j = x THEN Issued(x, t)
                   ELSE IF j \in Current(x) THEN [links[j] EXCEPT !.state = "superseded"]
                   ELSE links[j]]
          BY <4>2, <5>1, StatesAreTyped DEF IssueLoad, IssueFails, IssueLink
        <5>3. SameRequest(links[i], links[i])
          BY DEF SameRequest
        <5> QED
          BY <1>0, <5>2, <5>3, SetStateMoves, IssuedMoves
      <4>3. ASSUME NEW b \in Browsers, ConfirmLink(b) PROVE SameRequest(links'[i], links[i])
        BY <1>0, <4>3, ConfirmFacts, SetStateMoves, StatesAreTyped
      <4> QED
        BY <1>3, <2>1, <4>1, <4>2, <4>3, WhoWrites DEF SameRequest
    <3> QED
      BY <2>1, <3>1, LinkMoves DEF Committed, SameRequest
  <2>2. ASSUME NEW i \in Ids, links'[i].row = "open" PROVE Alone(i) /\ Within(i)
    <3>1. links[i].row = "open" /\ links'[i] = links[i]
      BY <2>1, <2>2
    <3>2. Within(i)
      BY <1>1, <3>1
    <3>3. Alone(i)
      BY <1>0, <2>1, <3>1 DEF LimiterHolds
    <3> QED
      BY <3>2, <3>3
  <2> QED
    BY <2>2 DEF LimiterHolds
<1> QED
  BY <1>2, <1>3

(* One limit, over any window: the request that commits counted every      *)
(* admitted request of the window, also the ones asked after it.           *)
LEMMA LimitStep ==
    ASSUME IInv, [Next]_vars, NEW field \in {"email", "origin"}, NEW value,
           NEW limit \in Nat, NEW t \in 0..MaxTime,
           Cardinality(Admitted(field, value, t)) <= limit,
           \A i \in Ids : /\ links[i].row = "open" /\ links[i].decision # "limited"
                          /\ links[i][field] = value
                          => Recent(field, value, links[i].at) < limit
    PROVE  Cardinality(Admitted(field, value, t)') <= limit
<1>0. TypeOK
  BY DEF IInv
<1> DEFINE A == Admitted(field, value, t)
<1>1. \A x \in Ids : Committed(x) =>
          /\ Committed(x)' /\ links'[x][field] = links[x][field]
          /\ links'[x].at = links[x].at /\ links'[x].decision = links[x].decision
  BY FieldsStay
<1>2. CASE \E i \in Ids : CommitRequest(i)
  <2>1. PICK i \in Ids : CommitRequest(i)
    BY <1>2
  <2>2. /\ links'[i].row = "committed" /\ links[i].row = "open"
        /\ links'[i].email = links[i].email /\ links'[i].origin = links[i].origin
        /\ links'[i].at = links[i].at /\ links'[i].decision = links[i].decision
        /\ \A j \in Ids : j # i => links'[j] = links[j]
    BY <1>0, <2>1, CommitMoves DEF CommitRequest
  <2>3. A' \subseteq A \cup {i}
    BY <2>2 DEF Admitted, Committed
  <2>4. CASE i \notin A'
    <3>1. A' \subseteq A
      BY <2>3, <2>4
    <3>2. Cardinality(A') <= Cardinality(A)
      BY <3>1, FS_Subset, RecentFacts
    <3>3. Cardinality(A') \in Nat /\ Cardinality(A) \in Nat
      BY <3>1, FS_Subset, FS_CardinalityType, RecentFacts
    <3> HIDE DEF A
    <3> QED
      BY <3>2, <3>3 DEF A
  <2>5. CASE i \in A'
    <3>1. links[i].decision # "limited" /\ links[i][field] = value /\ links[i].at <= t
      <4>1. links'[i].at \in (t - Window + 1)..t /\ links'[i].decision # "limited"
            /\ links'[i][field] = value
        BY <2>5 DEF Admitted
      <4> QED
        BY <2>2, <4>1, LinkAssumption
    <3>2. Recent(field, value, links[i].at) < limit
      BY <2>2, <3>1
    <3>3. A \subseteq RecentOf(field, value, links[i].at)
      <4>1. links[i].at \in Nat /\ Window \in Nat /\ t \in Nat
        BY <1>0, LinkAssumption DEF TypeOK, LinkRow
      <4>2. ASSUME NEW x \in A PROVE x \in RecentOf(field, value, links[i].at)
        <5>1. x \in Ids /\ Committed(x) /\ links[x][field] = value
              /\ links[x].at \in (t - Window + 1)..t
          BY <4>2 DEF Admitted
        <5>2. links[x].at > links[i].at - Window
          BY <3>1, <4>1, <5>1
        <5> QED
          BY <5>1, <5>2 DEF RecentOf
      <4> QED
        BY <4>2
    <3>4. Cardinality(A) <= Recent(field, value, links[i].at)
      BY <3>3, FS_Subset, RecentFacts
    <3>5. IsFiniteSet(A) /\ Cardinality(A) \in Nat /\ Recent(field, value, links[i].at) \in Nat
      BY RecentFacts
    <3>6. i \notin A
      BY <2>2 DEF Admitted, Committed
    <3>7. IsFiniteSet(A \cup {i}) /\ Cardinality(A \cup {i}) = Cardinality(A) + 1
      BY <3>5, <3>6, FS_AddElement
    <3>8. Cardinality(A') <= Cardinality(A \cup {i}) /\ Cardinality(A') \in Nat
      BY <2>3, <3>7, FS_Subset, FS_CardinalityType
    <3> HIDE DEF A
    <3>9. Cardinality(A') <= limit
      BY <3>2, <3>4, <3>5, <3>7, <3>8
    <3> QED
      BY <3>9 DEF A
  <2> QED
    BY <2>4, <2>5
<1>3. CASE ~ \E i \in Ids : CommitRequest(i)
  <2>1. \A x \in Ids : Committed(x)' => Committed(x)
    <3>1. ASSUME NEW x \in Ids, NEW y \in Ids, NEW e \in Emails, NEW o \in Origins,
                 NEW u \in (now - MaxDelay)..now, u >= 0, RequestLink(y, e, o, u), Committed(x)'
          PROVE  Committed(x)
      BY <1>0, <3>1, RequestTime, RequestMoves DEF Committed
    <3>2. ASSUME NEW x \in Ids, NEW y \in Ids, RollbackRequest(y), Committed(x)'
          PROVE  Committed(x)
      BY <1>0, <3>2, RollbackMoves DEF Committed
    <3>3. ASSUME NEW x \in Ids, NEW w \in Workers, IssueLoad(w) \/ IssueFails(w) \/ IssueLink(w)
          PROVE  SameRequest(links'[x], links[x])
      <4>1. PICK i \in Ids, u \in 0..MaxTime : i = issuer[w].id /\ u = issuer[w].at
        BY <3>3, IssuerFacts
      <4>2. \/ UNCHANGED links
            \/ \E s \in AttemptStates : SetState(i, s)
            \/ links' = [j \in Ids |->
                 IF j = i THEN Issued(i, u)
                 ELSE IF j \in Current(i) THEN [links[j] EXCEPT !.state = "superseded"]
                 ELSE links[j]]
        BY <3>3, <4>1, StatesAreTyped DEF IssueLoad, IssueFails, IssueLink
      <4>3. SameRequest(links[x], links[x])
        BY DEF SameRequest
      <4> QED
        BY <1>0, <4>2, <4>3, SetStateMoves, IssuedMoves
    <3>4. ASSUME NEW x \in Ids, NEW b \in Browsers, ConfirmLink(b)
          PROVE  SameRequest(links'[x], links[x])
      BY <1>0, <3>4, ConfirmFacts, SetStateMoves, StatesAreTyped
    <3> QED
      BY <1>3, <3>1, <3>2, <3>3, <3>4, WhoWrites DEF Committed, SameRequest
  <2>2. A' = A
    BY <1>1, <2>1 DEF Admitted
  <2> QED
    BY <2>2
<1> QED
  BY <1>2, <1>3

LEMMA LimitedStep ==
    ASSUME IInv, [Next]_vars
    PROVE  RequestsLimited'
<1>0. RequestsLimited /\ LimiterHolds /\ EmailLimit \in Nat /\ OriginLimit \in Nat
  BY LinkAssumption DEF IInv
<1>1. ASSUME NEW t \in 0..MaxTime, NEW e \in Emails
      PROVE  Cardinality(Admitted("email", e, t)') <= EmailLimit
  <2>1. Cardinality(Admitted("email", e, t)) <= EmailLimit
    BY <1>0 DEF RequestsLimited
  <2>2. \A i \in Ids : /\ links[i].row = "open" /\ links[i].decision # "limited"
                       /\ links[i]["email"] = e
                       => Recent("email", e, links[i].at) < EmailLimit
    BY <1>0 DEF LimiterHolds
  <2> QED
    BY <1>0, <2>1, <2>2, LimitStep
<1>2. ASSUME NEW t \in 0..MaxTime, NEW o \in Origins
      PROVE  Cardinality(Admitted("origin", o, t)') <= OriginLimit
  <2>1. Cardinality(Admitted("origin", o, t)) <= OriginLimit
    BY <1>0 DEF RequestsLimited
  <2>2. \A i \in Ids : /\ links[i].row = "open" /\ links[i].decision # "limited"
                       /\ links[i]["origin"] = o
                       => Recent("origin", o, links[i].at) < OriginLimit
    BY <1>0 DEF LimiterHolds
  <2> QED
    BY <1>0, <2>1, <2>2, LimitStep
<1> QED
  BY <1>1, <1>2 DEF RequestsLimited

-----------------------------------------------------------------------------
(* The invariant and the theorems                                          *)

LEMMA InitIInv == Init => IInv
<1> SUFFICES ASSUME Init PROVE IInv
  OBVIOUS
<1>1. TypeOK
  <2>1. 0 \in 0..MaxTime
    BY LinkAssumption
  <2> QED
    BY <2>1, RecordTypes DEF Init, TypeOK
<1>2. \A i \in Ids : links[i].row = "absent" /\ links[i].state = "none" /\ session[i] = Nobody
  BY DEF Init, NoLink
<1>3. RequestsAreNamed /\ LimiterHolds /\ SessionMatchesLink /\ NewerLinkWins
  BY <1>2 DEF RequestsAreNamed, LimiterHolds, SessionMatchesLink, NewerLinkWins
<1>4. IsFiniteSet(Used)
  <2>1. Used = {}
    BY <1>2 DEF Used
  <2> QED
    BY <2>1, FS_EmptySet
<1>5. IssuersOwn /\ BrowsersAreNamed
  BY RecordTypes DEF Init, IssuersOwn, BrowsersAreNamed, Issuing
<1>6. RequestsLimited
  <2>1. \A field, value, t : Admitted(field, value, t) = {}
    BY <1>2 DEF Admitted, Committed
  <2>2. Cardinality({}) = 0 /\ EmailLimit \in Nat /\ OriginLimit \in Nat
    BY FS_EmptySet, LinkAssumption
  <2> QED
    BY <2>1, <2>2 DEF RequestsLimited
<1> QED
  BY <1>1, <1>3, <1>4, <1>5, <1>6 DEF IInv

LEMMA IInvStep == IInv /\ [Next]_vars => IInv'
BY TypeStep, RequestsStep, UsedStep, IssuersStep, LimiterStep, SessionStep, NewerStep,
   LimitedStep DEF IInv

LEMMA IInvInvariant == Spec => []IInv
BY InitIInv, IInvStep, PTL DEF Spec

(* Requests, links, accounts, sessions and the calls under way keep their  *)
(* types, whatever interleaving of workers and browsers.                   *)
THEOREM LinkTypes == Spec => []TypeOK
BY IInvInvariant, PTL DEF IInv

(* confirm_magic_link signs in whom the link was sent to, once: however    *)
(* workers, browsers and administrators interleave, a link has a session   *)
(* exactly when it was consumed, and then its own subject's.               *)
THEOREM SessionMatchesLinkInvariant == Spec => []SessionMatchesLink
BY IInvInvariant, PTL DEF IInv

(* A link is superseded only by a link of a newer request of its subject   *)
(* that was issued, in whichever order the provider accepted them.         *)
THEOREM NewerLinkWinsInvariant == Spec => []NewerLinkWins
BY IInvInvariant, PTL DEF IInv

(* No window admits more requests of an email or of an origin than the     *)
(* limiter's limits, although it decides by timestamps read before its     *)
(* locks were granted.                                                     *)
THEOREM RequestsLimitedInvariant == Spec => []RequestsLimited
BY IInvInvariant, PTL DEF IInv

(* A consumed, superseded or failed link stays what it is, and a           *)
(* provider's account never moves to another user.                         *)
THEOREM NeverRevivedHolds == Spec => NeverRevived
<1> DEFINE Step ==
      /\ \A i \in Ids : /\ Committed(i)
                        /\ links[i].state \in FinalStates
                        => links'[i].state = links[i].state
      /\ \A s \in Subjects : account[s] # Nobody => account'[s] = account[s]
<1>1. ASSUME IInv, [Next]_vars PROVE Step
  <2>1. ASSUME NEW i \in Ids, Committed(i), links[i].state \in FinalStates
        PROVE  links'[i].state = links[i].state
    BY <1>1, <2>1, CommittedStays DEF FinalStates, Moves
  <2>2. ASSUME NEW s \in Subjects, account[s] # Nobody
        PROVE  account'[s] = account[s]
    <3>1. ASSUME NEW b \in Browsers, ConfirmLink(b) PROVE account'[s] = account[s]
      BY <1>1, <2>2, <3>1, ConfirmFacts DEF IInv, TypeOK
    <3> QED
      BY <1>1, <3>1, WhoWrites
  <2> QED
    BY <2>1, <2>2
<1>2. IInv /\ [Next]_vars => [Step]_vars
  BY <1>1
<1>3. Spec => [][Step]_vars
  BY <1>2, IInvInvariant, PTL DEF Spec
<1> QED
  BY <1>3 DEF NeverRevived


-----------------------------------------------------------------------------
(* Sessions and administration.  The proofs rest on the row locks: the     *)
(* locks of two transactions never conflict, every write is made under a   *)
(* lock, and what a transaction has read under its locks is still so when  *)
(* it commits.                                                             *)

-----------------------------------------------------------------------------
(* The inductive invariant                                                 *)

(* No two transactions hold conflicting locks.                             *)
LocksExclude ==
    \A p, q \in Clients : p # q =>
        \A lock \in client[p].held : ~Conflict(lock, client[q].held)

(* Past the check of its actor, a change has the actor's row locked.       *)
Checked(c) ==
    /\ c.pc \in {"target", "role", "audit", "apply"}
    /\ c.call \in {"set_user_status", "change_role"}
    /\ c.actor # System

(* The change that ends an active assignment, past its reading of it.      *)
Withdrawing(c) ==
    c.pc \in {"audit", "apply"} /\ c.call = "change_role" /\ ~c.grant

(* The locks a transaction has at each point.                              *)
Locked(c) ==
    /\ c.pc \in {"user", "allowed", "revoke"} =>
          <<SessionRow(c.token), "update">> \in c.held
    /\ c.pc = "allowed" => <<UserRow(Owner[c.token]), "update">> \in c.held
    /\ Checked(c) => <<UserRow(c.actor), "update">> \in c.held
    /\ c.pc = "apply" /\ c.call = "set_user_status" =>
          <<UserRow(c.target), "update">> \in c.held
    /\ c.pc = "apply" /\ c.call = "change_role" =>
          <<UserRow(c.target), "share">> \in c.held
    /\ Withdrawing(c) => <<RoleRows(c.target, c.role), "update">> \in c.held

(* What a transaction has read and relies on is what the database holds.   *)
AllowedNow(c) ==
    /\ ~sessions[c.token].revoked
    /\ ~IsIdleExpired(c.token, c.at)
    /\ status[Owner[c.token]] = "active"
    /\ ActiveRoles(Owner[c.token]) \cap AllowedRoles(c.action) # {}

CurrentReads(c) ==
    /\ c.pc = "allowed" => AllowedNow(c)
    /\ Checked(c) => IsAdministrator(c.actor)
    /\ Withdrawing(c) => assigned[c.target][c.role] > 0

(* A change of no actor has nobody to check.                               *)
ActorsAreUsers ==
    \A p \in Clients : client[p].pc = "actor" => client[p].actor \in Users

SessionInv ==
    /\ SessionTypeOK
    /\ ActorsAreUsers
    /\ LocksExclude
    /\ \A p \in Clients : Locked(client[p])
    /\ \A p \in Clients : CurrentReads(client[p])

-----------------------------------------------------------------------------
(* Calls                                                                   *)

(* What the step of one client may be.                                     *)
Work(p) ==
    \/ BeginAuthorize(p) \/ ReadSession(p) \/ Decide(p) \/ CommitAllowed(p)
    \/ BeginLogout(p) \/ LogoutRead(p) \/ CommitLogout(p)
    \/ BeginChange(p) \/ RequireAdministrator(p) \/ ReadTarget(p)
    \/ SetUserStatus(p) \/ ReadRole(p) \/ AuditRole(p) \/ ChangeRole(p)
    \/ BeginBootstrap(p) \/ BootstrapRead(p) \/ CommitBootstrap(p)
    \/ Abort(p)

(* A client's place tells what call it is in.                              *)
LEMMA Places ==
    ASSUME SessionTypeOK, NEW p \in Clients
    PROVE  /\ client[p].pc = "idle" => client[p] = Idle
           /\ client[p].pc # "idle" => client[p] \in Calls
           /\ client[p].pc = "session" => client[p] \in Authorizing \cup LoggingOut
           /\ client[p].pc = "user" => client[p] \in Authorizing
           /\ client[p].pc = "allowed" => client[p] \in Allowed
           /\ client[p].pc = "revoke" => client[p] \in LoggingOut
           /\ client[p].pc = "actor" => client[p] \in ChangingStatus \cup ChangingRole
           /\ client[p].pc = "target" => client[p] \in ChangingStatus \cup Bootstrapping
           /\ client[p].pc \in {"role", "audit"} => client[p] \in ChangingRole
           /\ client[p].pc = "apply" =>
                 client[p] \in ChangingStatus \cup ChangingRole \cup Bootstrapping
<1>1. client[p] = Idle \/ client[p] \in Calls
  BY DEF SessionTypeOK
<1>2. CASE client[p] = Idle
  BY <1>2 DEF Idle
<1>3. CASE client[p] \in Calls
  BY <1>3 DEF Calls, Authorizing, Allowed, LoggingOut, ChangingStatus, ChangingRole,
              Bootstrapping
<1> QED
  BY <1>1, <1>2, <1>3

LEMMA CallNames ==
    ASSUME NEW c
    PROVE  /\ c \in Authorizing \cup Allowed => c.call = "authorize"
           /\ c \in LoggingOut => c.call = "logout"
           /\ c \in ChangingStatus => c.call = "set_user_status"
           /\ c \in ChangingRole => c.call = "change_role"
           /\ c \in Bootstrapping => c.call = "bootstrap"
BY DEF Authorizing, Allowed, LoggingOut, ChangingStatus, ChangingRole, Bootstrapping

(* Only the rows of the model are locked.                                  *)
LEMMA WantsALock ==
    ASSUME SessionTypeOK, NEW p \in Clients,
           client[p].pc \in {"session", "user", "actor", "target", "role", "audit"},
           ActorsAreUsers
    PROVE  Wants(p) \in Locks /\ Wants(p) # <<>>
<1>0. \A t \in Tokens : Owner[t] \in Users
  BY SessionAssumption
<1>1. CASE client[p].pc = "session"
  <2>1. client[p].token \in Tokens
    BY <1>1, Places DEF Authorizing, LoggingOut
  <2> QED
    BY <1>1, <2>1 DEF Wants, Locks, Rows, SessionRow
<1>2. CASE client[p].pc = "user"
  <2>1. client[p].token \in Tokens
    BY <1>2, Places DEF Authorizing
  <2> QED
    BY <1>0, <1>2, <2>1 DEF Wants, Locks, Rows, UserRow
<1>3. CASE client[p].pc = "actor"
  <2>1. client[p].actor \in Users
    BY <1>3 DEF ActorsAreUsers
  <2> QED
    BY <1>3, <2>1 DEF Wants, Locks, Rows, UserRow
<1>4. CASE client[p].pc = "target"
  <2>1. client[p].target \in Users
    BY <1>4, Places DEF ChangingStatus, Bootstrapping
  <2> QED
    BY <1>4, <2>1 DEF Wants, Locks, Rows, UserRow
<1>5. CASE client[p].pc = "role"
  <2>1. client[p].target \in Users /\ client[p].role \in Roles
    BY <1>5, Places, SessionAssumption DEF ChangingRole
  <2> QED
    BY <1>5, <2>1 DEF Wants, Locks, Rows, RoleRows
<1>6. CASE client[p].pc = "audit"
  <2>1. client[p].target \in Users
    BY <1>6, Places DEF ChangingRole
  <2> QED
    BY <1>6, <2>1 DEF Wants, Locks, Rows, UserRow
<1> QED
  BY <1>1, <1>2, <1>3, <1>4, <1>5, <1>6

(* Taking a lock changes a call's place and adds to what it holds.         *)
LEMMA LockMoves ==
    ASSUME SessionTypeOK, NEW p \in Clients, client[p] \in Calls, NEW pc, Lock(p, pc)
    PROVE  /\ client' = [client EXCEPT ![p] =
                           [client[p] EXCEPT !.pc = pc,
                                             !.held = client[p].held \cup {Wants(p)}]]
           /\ client'[p] = [client[p] EXCEPT !.pc = pc,
                                             !.held = client[p].held \cup {Wants(p)}]
           /\ \A q \in Clients \ {p} : client'[q] = client[q]
BY DEF Lock, SessionTypeOK

LEMMA GotoMoves ==
    ASSUME SessionTypeOK, NEW p \in Clients, client[p] \in Calls, NEW pc, Goto(p, pc)
    PROVE  /\ client' = [client EXCEPT ![p] = [client[p] EXCEPT !.pc = pc]]
           /\ client'[p] = [client[p] EXCEPT !.pc = pc]
           /\ \A q \in Clients \ {p} : client'[q] = client[q]
BY DEF Goto, SessionTypeOK

LEMMA EndMoves ==
    ASSUME SessionTypeOK, NEW p \in Clients, End(p)
    PROVE  /\ client'[p] = Idle
           /\ client' = [client EXCEPT ![p] = Idle]
           /\ \A q \in Clients \ {p} : client'[q] = client[q]
BY DEF End, SessionTypeOK

-----------------------------------------------------------------------------
(* The steps that leave the database alone                                 *)

(* A client moves to c, with locks it had or nobody's in the way of.       *)
Advance(p, c) ==
    /\ c \in Calls
    /\ client' = [client EXCEPT ![p] = c]
    /\ \A lock \in c.held :
          lock \in client[p].held
            \/ \A q \in Clients \ {p} : ~Conflict(lock, client[q].held)
    /\ c.pc = "actor" => c.actor \in Users
    /\ Locked(c) /\ CurrentReads(c)
    /\ UNCHANGED <<clock, status, assigned, sessions>>

LEMMA FreeLock ==
    ASSUME SessionTypeOK, ActorsAreUsers, NEW p \in Clients, Free(p),
           client[p].pc \in {"session", "user", "actor", "target", "role", "audit"},
           client[p].pc = "role" => assigned[client[p].target][client[p].role] > 0,
           NEW q \in Clients \ {p}
    PROVE  ~Conflict(Wants(p), client[q].held)
<1>1. Wants(p) # <<>>
  BY WantsALock
<1> QED
  BY <1>1 DEF Free, WaitsFor

(* A call that begins holds nothing.                                       *)
LEMMA BeginAdvances ==
    ASSUME SessionTypeOK, NEW p \in Clients, NEW c \in Calls, c.held = {},
           c.pc \in {"session", "actor", "target", "role"}, ~Checked(c),
           c.pc = "actor" => c.actor \in Users,
           Begin(p, c)
    PROVE  Advance(p, c)
BY DEF Begin, Advance, Locked, CurrentReads, Withdrawing

LEMMA BeginAuthorizeAdvances ==
    ASSUME SessionInv, NEW p \in Clients, BeginAuthorize(p)
    PROVE  \E c \in Calls : Advance(p, c)
<1>1. PICK t \in Tokens :
        Begin(p, [pc |-> "session", held |-> {}, call |-> "authorize", token |-> t,
                  at |-> clock])
  BY DEF BeginAuthorize
<1> DEFINE c == [pc |-> "session", held |-> {}, call |-> "authorize", token |-> t,
                 at |-> clock]
<1>2. c \in Authorizing /\ c.held = {} /\ c.pc = "session" /\ Begin(p, c)
  BY <1>1 DEF Authorizing, SessionInv, SessionTypeOK
<1> HIDE DEF c
<1> QED
  BY <1>2, BeginAdvances DEF SessionInv, Calls, Checked

LEMMA BeginLogoutAdvances ==
    ASSUME SessionInv, NEW p \in Clients, BeginLogout(p)
    PROVE  \E c \in Calls : Advance(p, c)
<1>1. PICK t \in Tokens :
        Begin(p, [pc |-> "session", held |-> {}, call |-> "logout", token |-> t])
  BY DEF BeginLogout
<1> DEFINE c == [pc |-> "session", held |-> {}, call |-> "logout", token |-> t]
<1>2. c \in LoggingOut /\ c.held = {} /\ c.pc = "session" /\ Begin(p, c)
  BY <1>1 DEF LoggingOut
<1> HIDE DEF c
<1> QED
  BY <1>2, BeginAdvances DEF SessionInv, Calls, Checked

LEMMA BeginBootstrapAdvances ==
    ASSUME SessionInv, NEW p \in Clients, BeginBootstrap(p)
    PROVE  \E c \in Calls : Advance(p, c)
<1>1. PICK u \in Users :
        Begin(p, [pc |-> "target", held |-> {}, call |-> "bootstrap", target |-> u])
  BY DEF BeginBootstrap
<1> DEFINE c == [pc |-> "target", held |-> {}, call |-> "bootstrap", target |-> u]
<1>2. /\ c \in Bootstrapping /\ c.held = {} /\ c.pc = "target" /\ Begin(p, c)
      /\ c.call = "bootstrap"
  BY <1>1 DEF Bootstrapping
<1> HIDE DEF c
<1> QED
  BY <1>2, BeginAdvances DEF SessionInv, Calls, Checked

LEMMA BeginChangeAdvances ==
    ASSUME SessionInv, NEW p \in Clients, BeginChange(p)
    PROVE  \E c \in Calls : Advance(p, c)
<1>1. PICK actor \in Users \cup {System}, target \in Users :
        \/ \E to \in {"active", "disabled"} :
             Begin(p, [pc |-> IF actor = System THEN "target" ELSE "actor",
                       held |-> {}, call |-> "set_user_status", actor |-> actor,
                       target |-> target, to |-> to])
        \/ \E role \in RolesGiven, grant \in BOOLEAN :
             Begin(p, [pc |-> IF actor = System THEN "role" ELSE "actor",
                       held |-> {}, call |-> "change_role", actor |-> actor,
                       target |-> target, role |-> role, grant |-> grant])
  BY DEF BeginChange
<1>2. ASSUME NEW to \in {"active", "disabled"},
             Begin(p, [pc |-> IF actor = System THEN "target" ELSE "actor",
                       held |-> {}, call |-> "set_user_status", actor |-> actor,
                       target |-> target, to |-> to])
      PROVE  \E c \in Calls : Advance(p, c)
  <2> DEFINE c == [pc |-> IF actor = System THEN "target" ELSE "actor",
                   held |-> {}, call |-> "set_user_status", actor |-> actor,
                   target |-> target, to |-> to]
  <2>1. /\ c.held = {} /\ c.actor = actor /\ Begin(p, c)
        /\ c.pc = IF actor = System THEN "target" ELSE "actor"
    BY <1>2
  <2>2. c \in ChangingStatus
    BY DEF ChangingStatus
  <2> HIDE DEF c
  <2>3. ~Checked(c)
    BY <2>1 DEF Checked
  <2> QED
    BY <2>1, <2>2, <2>3, BeginAdvances DEF SessionInv, Calls
<1>3. ASSUME NEW role \in RolesGiven, NEW grant \in BOOLEAN,
             Begin(p, [pc |-> IF actor = System THEN "role" ELSE "actor",
                       held |-> {}, call |-> "change_role", actor |-> actor,
                       target |-> target, role |-> role, grant |-> grant])
      PROVE  \E c \in Calls : Advance(p, c)
  <2> DEFINE c == [pc |-> IF actor = System THEN "role" ELSE "actor",
                   held |-> {}, call |-> "change_role", actor |-> actor,
                   target |-> target, role |-> role, grant |-> grant]
  <2>1. /\ c.held = {} /\ c.actor = actor /\ Begin(p, c)
        /\ c.pc = IF actor = System THEN "role" ELSE "actor"
    BY <1>3
  <2>2. c \in ChangingRole
    BY DEF ChangingRole
  <2> HIDE DEF c
  <2>3. ~Checked(c)
    BY <2>1 DEF Checked
  <2> QED
    BY <2>1, <2>2, <2>3, BeginAdvances DEF SessionInv, Calls
<1> QED
  BY <1>1, <1>2, <1>3

LEMMA ReadSessionAdvances ==
    ASSUME SessionInv, NEW p \in Clients, ReadSession(p)
    PROVE  \E c \in Calls : Advance(p, c)
<1> DEFINE lock == <<SessionRow(client[p].token), "update">>
           c == [client[p] EXCEPT !.pc = "user", !.held = client[p].held \cup {Wants(p)}]
<1>1. client[p] \in Authorizing /\ client[p].pc = "session" /\ Lock(p, "user") /\ Free(p)
  BY Places, CallNames DEF ReadSession, SessionInv
<1>2. Wants(p) = lock /\ Wants(p) \in Locks
  BY <1>1, WantsALock DEF Wants, SessionInv
<1>3. \A q \in Clients \ {p} : ~Conflict(Wants(p), client[q].held)
  BY <1>1, FreeLock DEF SessionInv
<1>4. /\ c \in Authorizing /\ c.pc = "user" /\ c.held = client[p].held \cup {Wants(p)}
      /\ c.token = client[p].token
  BY <1>1, <1>2 DEF Authorizing
<1>5. client' = [client EXCEPT ![p] = c]
  BY <1>1, LockMoves DEF SessionInv, Calls
<1> HIDE DEF c
<1>6. Locked(c) /\ CurrentReads(c)
  BY <1>2, <1>4 DEF Locked, CurrentReads, Checked, Withdrawing
<1>7. c \in Calls
  BY <1>4 DEF Calls
<1> QED
  BY <1>3, <1>4, <1>5, <1>6, <1>7 DEF Advance, ReadSession

LEMMA DecideAdvances ==
    ASSUME SessionInv, NEW p \in Clients, Decide(p)
    PROVE  Refuse(p) \/ \E c \in Calls : Advance(p, c)
<1>1. PICK action \in Actions, owner \in Users \cup {Unowned} :
         \/ /\ Accepts(p, action, owner)
            /\ client' = [client EXCEPT ![p] =
                 [pc |-> "allowed", held |-> client[p].held \cup {Wants(p)},
                  call |-> "authorize", token |-> client[p].token,
                  at |-> client[p].at, action |-> action]]
            /\ UNCHANGED <<clock, status, assigned, sessions>>
         \/ ~Accepts(p, action, owner) /\ Refuse(p)
  BY DEF Decide
<1>2. CASE Refuse(p)
  BY <1>2
<1>3. CASE /\ Accepts(p, action, owner)
           /\ client' = [client EXCEPT ![p] =
                 [pc |-> "allowed", held |-> client[p].held \cup {Wants(p)},
                  call |-> "authorize", token |-> client[p].token,
                  at |-> client[p].at, action |-> action]]
           /\ UNCHANGED <<clock, status, assigned, sessions>>
  <2> DEFINE c == [pc |-> "allowed", held |-> client[p].held \cup {Wants(p)},
                   call |-> "authorize", token |-> client[p].token,
                   at |-> client[p].at, action |-> action]
  <2>1. client[p] \in Authorizing /\ client[p].pc = "user" /\ Free(p)
    BY Places DEF Decide, SessionInv
  <2>2. Wants(p) = <<UserRow(Owner[client[p].token]), "update">> /\ Wants(p) \in Locks
    BY <2>1, WantsALock DEF Wants, SessionInv
  <2>3. \A q \in Clients \ {p} : ~Conflict(Wants(p), client[q].held)
    BY <2>1, FreeLock DEF SessionInv
  <2>4. /\ c \in Allowed /\ c.pc = "allowed" /\ c.held = client[p].held \cup {Wants(p)}
        /\ c.token = client[p].token /\ c.at = client[p].at /\ c.action = action
    BY <2>1, <2>2 DEF Authorizing, Allowed
  <2>5. client' = [client EXCEPT ![p] = c]
    BY <1>3
  <2> HIDE DEF c
  <2>6. <<SessionRow(client[p].token), "update">> \in client[p].held
    BY <2>1 DEF SessionInv, Locked
  <2>7. Locked(c)
    BY <2>2, <2>4, <2>6 DEF Locked, Checked, Withdrawing
  <2>8. AllowedNow(c)
    BY <1>3, <2>4 DEF Accepts, Permitted, AllowedNow
  <2>9. CurrentReads(c)
    BY <2>4, <2>8 DEF CurrentReads, Checked, Withdrawing
  <2>10. c \in Calls
    BY <2>4 DEF Calls
  <2> QED
    BY <1>3, <2>3, <2>4, <2>5, <2>7, <2>9, <2>10 DEF Advance
<1> QED
  BY <1>1, <1>2, <1>3

LEMMA LogoutReadAdvances ==
    ASSUME SessionInv, NEW p \in Clients, LogoutRead(p)
    PROVE  Refuse(p) \/ \E c \in Calls : Advance(p, c)
<1>1. CASE sessions[client[p].token].revoked
  BY <1>1 DEF LogoutRead, Refuse
<1>2. CASE ~sessions[client[p].token].revoked
  <2> DEFINE c == [client[p] EXCEPT !.pc = "revoke",
                                    !.held = client[p].held \cup {Wants(p)}]
  <2>1. client[p] \in LoggingOut /\ client[p].pc = "session" /\ Lock(p, "revoke") /\ Free(p)
    BY <1>2, Places, CallNames DEF LogoutRead, SessionInv
  <2>2. /\ Wants(p) = <<SessionRow(client[p].token), "update">>
        /\ Wants(p) \in Locks
    BY <2>1, WantsALock DEF Wants, SessionInv
  <2>3. \A q \in Clients \ {p} : ~Conflict(Wants(p), client[q].held)
    BY <2>1, FreeLock DEF SessionInv
  <2>4. /\ c \in LoggingOut /\ c.pc = "revoke"
        /\ c.held = client[p].held \cup {Wants(p)} /\ c.token = client[p].token
    BY <2>1, <2>2 DEF LoggingOut
  <2>5. client' = [client EXCEPT ![p] = c]
    BY <2>1, LockMoves DEF SessionInv, Calls
  <2> HIDE DEF c
  <2>6. Locked(c) /\ CurrentReads(c)
    BY <2>2, <2>4 DEF Locked, CurrentReads, Checked, Withdrawing
  <2>7. c \in Calls
    BY <2>4 DEF Calls
  <2> QED
    BY <2>3, <2>4, <2>5, <2>6, <2>7 DEF Advance, LogoutRead
<1> QED
  BY <1>1, <1>2

LEMMA RequireAdministratorAdvances ==
    ASSUME SessionInv, NEW p \in Clients, RequireAdministrator(p)
    PROVE  Refuse(p) \/ \E c \in Calls : Advance(p, c)
<1>1. CASE ~IsAdministrator(client[p].actor)
  BY <1>1 DEF RequireAdministrator
<1>2. CASE IsAdministrator(client[p].actor)
  <2> DEFINE pc == IF client[p].call = "change_role" THEN "role" ELSE "target"
             c == [client[p] EXCEPT !.pc = pc, !.held = client[p].held \cup {Wants(p)}]
  <2>1. /\ client[p] \in ChangingStatus \cup ChangingRole
        /\ client[p].pc = "actor" /\ Lock(p, pc) /\ Free(p)
    BY <1>2, Places DEF RequireAdministrator, SessionInv
  <2>2. /\ Wants(p) = <<UserRow(client[p].actor), "update">>
        /\ Wants(p) \in Locks
    BY <2>1, WantsALock DEF Wants, SessionInv
  <2>3. \A q \in Clients \ {p} : ~Conflict(Wants(p), client[q].held)
    BY <2>1, FreeLock DEF SessionInv
  <2>4. CASE client[p] \in ChangingStatus
    <3>1. pc = "target"
      BY <2>4, CallNames
    <3>2. /\ c \in ChangingStatus /\ c.pc = "target"
          /\ c.held = client[p].held \cup {Wants(p)} /\ c.actor = client[p].actor
      BY <2>2, <2>4, <3>1 DEF ChangingStatus
    <3>3. client' = [client EXCEPT ![p] = c]
      BY <2>1, <2>4, LockMoves DEF SessionInv, Calls
    <3> HIDE DEF c, pc
    <3>4. Locked(c) /\ CurrentReads(c)
      BY <1>2, <2>2, <3>2 DEF Locked, CurrentReads, Checked, Withdrawing
    <3>5. c \in Calls
      BY <3>2 DEF Calls
    <3> QED
      BY <1>2, <2>3, <3>2, <3>3, <3>4, <3>5 DEF Advance, RequireAdministrator
  <2>5. CASE client[p] \in ChangingRole
    <3>1. pc = "role"
      BY <2>5, CallNames
    <3>2. /\ c \in ChangingRole /\ c.pc = "role"
          /\ c.held = client[p].held \cup {Wants(p)} /\ c.actor = client[p].actor
      BY <2>2, <2>5, <3>1 DEF ChangingRole
    <3>3. client' = [client EXCEPT ![p] = c]
      BY <2>1, <2>5, LockMoves DEF SessionInv, Calls
    <3> HIDE DEF c, pc
    <3>4. Locked(c) /\ CurrentReads(c)
      BY <1>2, <2>2, <3>2 DEF Locked, CurrentReads, Checked, Withdrawing
    <3>5. c \in Calls
      BY <3>2 DEF Calls
    <3> QED
      BY <1>2, <2>3, <3>2, <3>3, <3>4, <3>5 DEF Advance, RequireAdministrator
  <2> QED
    BY <2>1, <2>4, <2>5
<1> QED
  BY <1>1, <1>2

LEMMA ReadTargetAdvances ==
    ASSUME SessionInv, NEW p \in Clients, ReadTarget(p)
    PROVE  \E c \in Calls : Advance(p, c)
<1> DEFINE c == [client[p] EXCEPT !.pc = "apply", !.held = client[p].held \cup {Wants(p)}]
<1>1. client[p] \in ChangingStatus /\ client[p].pc = "target" /\ Lock(p, "apply") /\ Free(p)
  BY Places, CallNames DEF ReadTarget, SessionInv
<1>2. Wants(p) = <<UserRow(client[p].target), "update">> /\ Wants(p) \in Locks
  BY <1>1, WantsALock DEF Wants, SessionInv
<1>3. \A q \in Clients \ {p} : ~Conflict(Wants(p), client[q].held)
  BY <1>1, FreeLock DEF SessionInv
<1>4. /\ c \in ChangingStatus /\ c.pc = "apply"
      /\ c.held = client[p].held \cup {Wants(p)}
      /\ c.actor = client[p].actor /\ c.target = client[p].target
  BY <1>1, <1>2 DEF ChangingStatus
<1>5. client' = [client EXCEPT ![p] = c]
  BY <1>1, LockMoves DEF SessionInv, Calls
<1> HIDE DEF c
<1>6. Locked(client[p]) /\ CurrentReads(client[p]) /\ Checked(c) => Checked(client[p])
  BY <1>1, <1>4, CallNames DEF SessionInv, Checked
<1>7. c.call = "set_user_status"
  BY <1>4, CallNames
<1>8. Locked(c)
  BY <1>2, <1>4, <1>6, <1>7 DEF Locked, Withdrawing, SessionInv
<1>9. CurrentReads(c)
  BY <1>4, <1>6, <1>7 DEF CurrentReads, Withdrawing, SessionInv
<1>10. c \in Calls
  BY <1>4 DEF Calls
<1> QED
  BY <1>3, <1>4, <1>5, <1>8, <1>9, <1>10 DEF Advance, ReadTarget

LEMMA BootstrapReadAdvances ==
    ASSUME SessionInv, NEW p \in Clients, BootstrapRead(p)
    PROVE  Refuse(p) \/ \E c \in Calls : Advance(p, c)
<1>1. CASE status[client[p].target] # "active"
  BY <1>1 DEF BootstrapRead, Refuse
<1>2. CASE status[client[p].target] = "active"
  <2> DEFINE c == [client[p] EXCEPT !.pc = "apply",
                                    !.held = client[p].held \cup {Wants(p)}]
  <2>1. client[p] \in Bootstrapping /\ client[p].pc = "target" /\ Lock(p, "apply") /\ Free(p)
    BY <1>2, Places, CallNames DEF BootstrapRead, SessionInv
  <2>2. Wants(p) \in Locks
    BY <2>1, WantsALock DEF SessionInv
  <2>3. \A q \in Clients \ {p} : ~Conflict(Wants(p), client[q].held)
    BY <2>1, FreeLock DEF SessionInv
  <2>4. c \in Bootstrapping /\ c.pc = "apply" /\ c.held = client[p].held \cup {Wants(p)}
    BY <2>1, <2>2 DEF Bootstrapping
  <2>5. client' = [client EXCEPT ![p] = c]
    BY <2>1, LockMoves DEF SessionInv, Calls
  <2> HIDE DEF c
  <2>6. Locked(c) /\ CurrentReads(c)
    BY <2>4, CallNames DEF Locked, CurrentReads, Checked, Withdrawing
  <2>7. c \in Calls
    BY <2>4 DEF Calls
  <2> QED
    BY <2>3, <2>4, <2>5, <2>6, <2>7 DEF Advance, BootstrapRead
<1> QED
  BY <1>1, <1>2

LEMMA ReadRoleAdvances ==
    ASSUME SessionInv, NEW p \in Clients, ReadRole(p)
    PROVE  Refuse(p) \/ \E c \in Calls : Advance(p, c)
<1> DEFINE present == assigned[client[p].target][client[p].role] > 0
<1>1. client[p] \in ChangingRole /\ client[p].pc = "role" /\ Free(p)
  BY Places DEF ReadRole, SessionInv
<1>2. CASE present = client[p].grant
  BY <1>2 DEF ReadRole
<1>3. CASE present /\ present # client[p].grant
  <2> DEFINE c == [client[p] EXCEPT !.pc = "audit",
                                    !.held = client[p].held \cup {Wants(p)}]
  <2>1. Lock(p, "audit") /\ UNCHANGED <<clock, status, assigned, sessions>>
    BY <1>3 DEF ReadRole
  <2>2. /\ Wants(p) = <<RoleRows(client[p].target, client[p].role), "update">>
        /\ Wants(p) \in Locks
    BY <1>1, WantsALock DEF Wants, SessionInv
  <2>3. \A q \in Clients \ {p} : ~Conflict(Wants(p), client[q].held)
    BY <1>1, <1>3, FreeLock DEF SessionInv
  <2>4. /\ c \in ChangingRole /\ c.pc = "audit"
        /\ c.held = client[p].held \cup {Wants(p)}
        /\ c.actor = client[p].actor /\ c.target = client[p].target
        /\ c.role = client[p].role
    BY <1>1, <2>2 DEF ChangingRole
  <2>5. client' = [client EXCEPT ![p] = c]
    BY <1>1, <2>1, LockMoves DEF SessionInv, Calls
  <2> HIDE DEF c
  <2>6. Checked(c) => Checked(client[p])
    BY <1>1, <2>4, CallNames DEF SessionInv, Checked
  <2>7. Locked(c)
    BY <2>2, <2>4, <2>6 DEF Locked, Withdrawing, SessionInv
  <2>8. CurrentReads(c)
    BY <1>3, <2>4, <2>6 DEF CurrentReads, Withdrawing, SessionInv
  <2>9. c \in Calls
    BY <2>4 DEF Calls
  <2> QED
    BY <2>1, <2>3, <2>4, <2>5, <2>7, <2>8, <2>9 DEF Advance
<1>4. CASE ~present /\ present # client[p].grant
  <2> DEFINE c == [client[p] EXCEPT !.pc = "audit"]
  <2>1. Goto(p, "audit") /\ UNCHANGED <<clock, status, assigned, sessions>>
    BY <1>4 DEF ReadRole
  <2>2. client[p].grant
    BY <1>1, <1>4 DEF ChangingRole
  <2>4. /\ c \in ChangingRole /\ c.pc = "audit" /\ c.held = client[p].held
        /\ c.actor = client[p].actor /\ c.grant = client[p].grant
    BY <1>1 DEF ChangingRole
  <2>5. client' = [client EXCEPT ![p] = c]
    BY <1>1, <2>1, GotoMoves DEF SessionInv, Calls
  <2> HIDE DEF c
  <2>6. Checked(c) => Checked(client[p])
    BY <1>1, <2>4, CallNames DEF SessionInv, Checked
  <2>7. Locked(c)
    BY <2>2, <2>4, <2>6 DEF Locked, Withdrawing, SessionInv
  <2>8. CurrentReads(c)
    BY <2>2, <2>4, <2>6 DEF CurrentReads, Withdrawing, SessionInv
  <2>9. c \in Calls
    BY <2>4 DEF Calls
  <2> QED
    BY <2>1, <2>4, <2>5, <2>7, <2>8, <2>9 DEF Advance
<1> QED
  BY <1>2, <1>3, <1>4

LEMMA AuditRoleAdvances ==
    ASSUME SessionInv, NEW p \in Clients, AuditRole(p)
    PROVE  \E c \in Calls : Advance(p, c)
<1> DEFINE c == [client[p] EXCEPT !.pc = "apply", !.held = client[p].held \cup {Wants(p)}]
<1>1. client[p] \in ChangingRole /\ client[p].pc = "audit" /\ Lock(p, "apply") /\ Free(p)
  BY Places DEF AuditRole, SessionInv
<1>2. Wants(p) = <<UserRow(client[p].target), "share">> /\ Wants(p) \in Locks
  BY <1>1, WantsALock DEF Wants, SessionInv
<1>3. \A q \in Clients \ {p} : ~Conflict(Wants(p), client[q].held)
  BY <1>1, FreeLock DEF SessionInv
<1>4. /\ c \in ChangingRole /\ c.pc = "apply"
      /\ c.held = client[p].held \cup {Wants(p)}
      /\ c.actor = client[p].actor /\ c.target = client[p].target
      /\ c.role = client[p].role /\ c.grant = client[p].grant
  BY <1>1, <1>2 DEF ChangingRole
<1>5. client' = [client EXCEPT ![p] = c]
  BY <1>1, LockMoves DEF SessionInv, Calls
<1> HIDE DEF c
<1>6. Checked(c) => Checked(client[p])
  BY <1>1, <1>4, CallNames DEF SessionInv, Checked
<1>7. Withdrawing(c) => Withdrawing(client[p])
  BY <1>1, <1>4, CallNames DEF SessionInv, Withdrawing
<1>8. c.call = "change_role"
  BY <1>4, CallNames
<1>9. Locked(c)
  BY <1>2, <1>4, <1>6, <1>7, <1>8 DEF Locked, SessionInv
<1>10. CurrentReads(c)
  BY <1>4, <1>6, <1>7 DEF CurrentReads, SessionInv
<1>11. c \in Calls
  BY <1>4 DEF Calls
<1> QED
  BY <1>3, <1>4, <1>5, <1>9, <1>10, <1>11 DEF Advance, AuditRole

-----------------------------------------------------------------------------
(* The steps that end a transaction                                        *)

(* A transaction writes only rows it has locked.                           *)
WritesAreLocked(p) ==
    /\ clock' = clock
    /\ status' \in [Users -> {"active", "disabled"}]
    /\ assigned' \in [Users -> [Roles -> 0..MaxRows]]
    /\ sessions' \in [Tokens -> [revoked : BOOLEAN, last : 0..LastTick]]
    /\ \A t \in Tokens : sessions'[t] # sessions[t] =>
          <<SessionRow(t), "update">> \in client[p].held
    /\ \A u \in Users : status'[u] # status[u] =>
          <<UserRow(u), "update">> \in client[p].held
    /\ \A u \in Users, r \in Roles : ~(assigned'[u][r] >= assigned[u][r]) =>
          /\ <<RoleRows(u, r), "update">> \in client[p].held
          /\ <<UserRow(u), "share">> \in client[p].held

LEMMA RefuseWrites ==
    ASSUME SessionInv, NEW p \in Clients, UNCHANGED <<clock, status, assigned, sessions>>
    PROVE  WritesAreLocked(p)
<1>1. \A u \in Users, r \in Roles : assigned[u][r] \in 0..MaxRows
  BY DEF SessionInv, SessionTypeOK
<1>2. \A u \in Users, r \in Roles : assigned'[u][r] >= assigned[u][r]
  BY <1>1, SessionAssumption
<1> QED
  BY <1>2 DEF WritesAreLocked, SessionInv, SessionTypeOK

LEMMA CommitAllowedWrites ==
    ASSUME SessionInv, NEW p \in Clients, CommitAllowed(p)
    PROVE  WritesAreLocked(p)
<1>1. /\ client[p].token \in Tokens /\ client[p].at \in 0..LastTick
      /\ <<SessionRow(client[p].token), "update">> \in client[p].held
  BY Places DEF CommitAllowed, SessionInv, Allowed, Locked
<1>2. [revoked |-> FALSE, last |-> client[p].at] \in [revoked : BOOLEAN, last : 0..LastTick]
  BY <1>1
<1>3. /\ sessions' \in [Tokens -> [revoked : BOOLEAN, last : 0..LastTick]]
      /\ \A t \in Tokens : t # client[p].token => sessions'[t] = sessions[t]
  BY <1>1, <1>2 DEF CommitAllowed, SessionInv, SessionTypeOK
<1>4. \A u \in Users, r \in Roles : assigned'[u][r] >= assigned[u][r]
  BY SessionAssumption DEF CommitAllowed, SessionInv, SessionTypeOK
<1> QED
  BY <1>1, <1>3, <1>4 DEF WritesAreLocked, CommitAllowed, SessionInv, SessionTypeOK

LEMMA CommitLogoutWrites ==
    ASSUME SessionInv, NEW p \in Clients, CommitLogout(p)
    PROVE  WritesAreLocked(p)
<1> DEFINE t0 == client[p].token
           row == [sessions[t0] EXCEPT !.revoked = TRUE]
<1>1. /\ t0 \in Tokens
      /\ <<SessionRow(t0), "update">> \in client[p].held
  BY Places DEF CommitLogout, SessionInv, LoggingOut, Locked
<1>2. row \in [revoked : BOOLEAN, last : 0..LastTick]
  BY <1>1 DEF SessionInv, SessionTypeOK
<1>3. sessions' = [sessions EXCEPT ![t0] = row]
  BY <1>1 DEF CommitLogout, SessionInv, SessionTypeOK
<1> HIDE DEF row, t0
<1>4. /\ sessions' \in [Tokens -> [revoked : BOOLEAN, last : 0..LastTick]]
      /\ \A t \in Tokens : t # t0 => sessions'[t] = sessions[t]
  BY <1>1, <1>2, <1>3 DEF SessionInv, SessionTypeOK
<1>5. \A u \in Users, r \in Roles : assigned'[u][r] >= assigned[u][r]
  BY SessionAssumption DEF CommitLogout, SessionInv, SessionTypeOK
<1> QED
  BY <1>1, <1>4, <1>5 DEF WritesAreLocked, CommitLogout, SessionInv, SessionTypeOK

LEMMA SetUserStatusWrites ==
    ASSUME SessionInv, NEW p \in Clients, SetUserStatus(p)
    PROVE  WritesAreLocked(p)
<1>1. /\ client[p].target \in Users /\ client[p].to \in {"active", "disabled"}
      /\ <<UserRow(client[p].target), "update">> \in client[p].held
  <2>1. client[p] \in ChangingStatus
    BY Places, CallNames DEF SetUserStatus, SessionInv
  <2> QED
    BY <2>1 DEF SetUserStatus, SessionInv, ChangingStatus, Locked
<1>2. /\ status' \in [Users -> {"active", "disabled"}]
      /\ \A u \in Users : u # client[p].target => status'[u] = status[u]
  BY <1>1 DEF SetUserStatus, SessionInv, SessionTypeOK
<1>3. \A u \in Users, r \in Roles : assigned'[u][r] >= assigned[u][r]
  BY SessionAssumption DEF SetUserStatus, SessionInv, SessionTypeOK
<1> QED
  BY <1>1, <1>2, <1>3 DEF WritesAreLocked, SetUserStatus, SessionInv, SessionTypeOK

(* One count goes up or down by one.                                       *)
LEMMA SaveRoleMoves ==
    ASSUME SessionTypeOK, NEW u0 \in Users, NEW r0 \in Roles, NEW n \in Int,
           assigned[u0][r0] + n \in 0..MaxRows, SaveRole(u0, r0, n)
    PROVE  /\ assigned' \in [Users -> [Roles -> 0..MaxRows]]
           /\ assigned'[u0][r0] = assigned[u0][r0] + n
           /\ \A u \in Users, r \in Roles :
                 u # u0 \/ r # r0 => assigned'[u][r] = assigned[u][r]
<1> DEFINE row == [assigned[u0] EXCEPT ![r0] = assigned[u0][r0] + n]
<1>1. assigned' = [assigned EXCEPT ![u0] = row]
  BY DEF SaveRole, SessionTypeOK
<1>2. /\ row \in [Roles -> 0..MaxRows] /\ row[r0] = assigned[u0][r0] + n
      /\ \A r \in Roles : r # r0 => row[r] = assigned[u0][r]
  BY DEF SessionTypeOK
<1> HIDE DEF row
<1> QED
  BY <1>1, <1>2 DEF SessionTypeOK

LEMMA ChangeRoleWrites ==
    ASSUME SessionInv, NEW p \in Clients, ChangeRole(p)
    PROVE  WritesAreLocked(p)
<1>1. client[p] \in ChangingRole /\ client[p].pc = "apply" /\ client[p].call = "change_role"
  BY Places, CallNames DEF ChangeRole, SessionInv
<1>2. /\ client[p].target \in Users /\ client[p].role \in Roles
      /\ client[p].grant \in BOOLEAN
  BY <1>1, SessionAssumption DEF ChangingRole
<1>3. assigned[client[p].target][client[p].role] \in 0..MaxRows
  BY <1>2 DEF SessionInv, SessionTypeOK
<1>4. <<UserRow(client[p].target), "share">> \in client[p].held
  BY <1>1 DEF SessionInv, Locked
<1>5. CASE client[p].grant
  <2>1. /\ SaveRole(client[p].target, client[p].role, 1)
        /\ assigned[client[p].target][client[p].role] < MaxRows
    BY <1>5 DEF ChangeRole
  <2>2. assigned[client[p].target][client[p].role] + 1 \in 0..MaxRows
    BY <1>3, <2>1, SessionAssumption
  <2>3. /\ assigned' \in [Users -> [Roles -> 0..MaxRows]]
        /\ \A u \in Users, r \in Roles : assigned'[u][r] >= assigned[u][r]
    <3>1. /\ assigned' \in [Users -> [Roles -> 0..MaxRows]]
          /\ assigned'[client[p].target][client[p].role]
               = assigned[client[p].target][client[p].role] + 1
          /\ \A u \in Users, r \in Roles :
                u # client[p].target \/ r # client[p].role => assigned'[u][r] = assigned[u][r]
      BY <1>2, <2>1, <2>2, SaveRoleMoves DEF SessionInv
    <3>2. \A u \in Users, r \in Roles : assigned[u][r] \in Int
      BY SessionAssumption DEF SessionInv, SessionTypeOK
    <3> QED
      BY <3>1, <3>2
  <2> QED
    BY <2>3 DEF WritesAreLocked, ChangeRole, SessionInv, SessionTypeOK
<1>6. CASE ~client[p].grant
  <2>1. SaveRole(client[p].target, client[p].role, -1)
    BY <1>6 DEF ChangeRole
  <2>2. Withdrawing(client[p])
    BY <1>1, <1>6 DEF Withdrawing
  <2>3. /\ assigned[client[p].target][client[p].role] > 0
        /\ <<RoleRows(client[p].target, client[p].role), "update">> \in client[p].held
    BY <2>2 DEF SessionInv, Locked, CurrentReads
  <2>4. assigned[client[p].target][client[p].role] + (-1) \in 0..MaxRows
    BY <1>3, <2>3, SessionAssumption
  <2>5. /\ assigned' \in [Users -> [Roles -> 0..MaxRows]]
        /\ \A u \in Users, r \in Roles :
              u # client[p].target \/ r # client[p].role => assigned'[u][r] = assigned[u][r]
    BY <1>2, <2>1, <2>4, SaveRoleMoves DEF SessionInv
  <2>6. \A u \in Users, r \in Roles : assigned[u][r] \in Int
    BY SessionAssumption DEF SessionInv, SessionTypeOK
  <2>7. \A u \in Users, r \in Roles : ~(assigned'[u][r] >= assigned[u][r]) =>
          u = client[p].target /\ r = client[p].role
    BY <2>5, <2>6
  <2> QED
    BY <1>4, <2>3, <2>5, <2>7 DEF WritesAreLocked, ChangeRole, SessionInv, SessionTypeOK
<1> QED
  BY <1>2, <1>5, <1>6

LEMMA CommitBootstrapWrites ==
    ASSUME SessionInv, NEW p \in Clients, CommitBootstrap(p)
    PROVE  WritesAreLocked(p)
<1>1. client[p].target \in Users /\ "administrator" \in Roles
  <2>1. client[p] \in Bootstrapping
    BY Places, CallNames DEF CommitBootstrap, SessionInv
  <2> QED
    BY <2>1 DEF Bootstrapping, Roles
<1>2. assigned[client[p].target]["administrator"] + 1 \in 0..MaxRows
  BY <1>1, SessionAssumption DEF SessionInv, SessionTypeOK, CommitBootstrap
<1>3. /\ assigned' \in [Users -> [Roles -> 0..MaxRows]]
      /\ assigned'[client[p].target]["administrator"]
           = assigned[client[p].target]["administrator"] + 1
      /\ \A u \in Users, r \in Roles :
            u # client[p].target \/ r # "administrator" => assigned'[u][r] = assigned[u][r]
  BY <1>1, <1>2, SaveRoleMoves DEF SessionInv, CommitBootstrap
<1>4. \A u \in Users, r \in Roles : assigned[u][r] \in Int
  BY SessionAssumption DEF SessionInv, SessionTypeOK
<1>5. \A u \in Users, r \in Roles : assigned'[u][r] >= assigned[u][r]
  BY <1>3, <1>4
<1> QED
  BY <1>3, <1>5 DEF WritesAreLocked, CommitBootstrap, SessionInv, SessionTypeOK

(* Every step of a client ends its transaction or leaves the database      *)
(* alone.                                                                  *)
LEMMA WorkSteps ==
    ASSUME SessionInv, NEW p \in Clients, Work(p)
    PROVE  \/ End(p) /\ WritesAreLocked(p)
           \/ \E c \in Calls : Advance(p, c)
<1>1. Refuse(p) => End(p) /\ WritesAreLocked(p)
  BY RefuseWrites DEF Refuse
<1>2. CASE BeginAuthorize(p) \/ BeginLogout(p) \/ BeginChange(p) \/ BeginBootstrap(p)
  BY <1>2, BeginAuthorizeAdvances, BeginLogoutAdvances, BeginChangeAdvances,
     BeginBootstrapAdvances
<1>3. CASE ReadSession(p) \/ Decide(p) \/ LogoutRead(p)
  BY <1>1, <1>3, ReadSessionAdvances, DecideAdvances, LogoutReadAdvances
<1>4. CASE RequireAdministrator(p) \/ ReadTarget(p) \/ ReadRole(p) \/ AuditRole(p)
             \/ BootstrapRead(p)
  BY <1>1, <1>4, RequireAdministratorAdvances, ReadTargetAdvances, ReadRoleAdvances,
     AuditRoleAdvances, BootstrapReadAdvances
<1>5. CASE CommitAllowed(p) \/ CommitLogout(p) \/ SetUserStatus(p)
  BY <1>5, CommitAllowedWrites, CommitLogoutWrites, SetUserStatusWrites
     DEF CommitAllowed, CommitLogout, SetUserStatus
<1>6. CASE ChangeRole(p) \/ CommitBootstrap(p)
  BY <1>6, ChangeRoleWrites, CommitBootstrapWrites DEF ChangeRole, CommitBootstrap
<1>7. CASE Abort(p)
  BY <1>1, <1>7 DEF Abort
<1> QED
  BY <1>2, <1>3, <1>4, <1>5, <1>6, <1>7 DEF Work

-----------------------------------------------------------------------------
(* The invariant is kept                                                   *)

(* What one transaction has locked for itself, another does not write.     *)
LEMMA NotWritten ==
    ASSUME SessionInv, NEW p \in Clients, NEW q \in Clients \ {p}, WritesAreLocked(p)
    PROVE  /\ \A t \in Tokens : <<SessionRow(t), "update">> \in client[q].held =>
                sessions'[t] = sessions[t]
           /\ \A u \in Users : <<UserRow(u), "update">> \in client[q].held =>
                /\ status'[u] = status[u]
                /\ \A r \in Roles : assigned'[u][r] >= assigned[u][r]
           /\ \A u \in Users, r \in Roles :
                <<RoleRows(u, r), "update">> \in client[q].held =>
                   assigned'[u][r] >= assigned[u][r]
<1>1. \A row, kind : <<row, "update">> \in client[q].held =>
                        <<row, kind>> \notin client[p].held
  <2> SUFFICES ASSUME NEW row, NEW kind, <<row, "update">> \in client[q].held,
                      <<row, kind>> \in client[p].held
               PROVE  FALSE
    OBVIOUS
  <2>1. Conflict(<<row, "update">>, client[p].held)
    BY DEF Conflict
  <2> QED
    BY <2>1 DEF SessionInv, LocksExclude
<1> QED
  BY <1>1 DEF WritesAreLocked

LEMMA CurrentStays ==
    ASSUME SessionInv, NEW p \in Clients, NEW q \in Clients \ {p}, WritesAreLocked(p),
           client'[q] = client[q]
    PROVE  CurrentReads(client[q])'
<1>0. Locked(client[q]) /\ CurrentReads(client[q])
  BY DEF SessionInv
<1>1. ASSUME client[q].pc = "allowed" PROVE AllowedNow(client[q])'
  <2>1. client[q].token \in Tokens /\ Owner[client[q].token] \in Users
    BY <1>1, Places, SessionAssumption DEF SessionInv, Allowed
  <2>2. /\ sessions'[client[q].token] = sessions[client[q].token]
        /\ status'[Owner[client[q].token]] = status[Owner[client[q].token]]
        /\ \A r \in Roles : assigned'[Owner[client[q].token]][r]
                              >= assigned[Owner[client[q].token]][r]
    BY <1>0, <1>1, <2>1, NotWritten DEF Locked
  <2>3. AllowedNow(client[q])
    BY <1>0, <1>1 DEF CurrentReads
  <2>4. PICK r \in Roles : /\ assigned[Owner[client[q].token]][r] > 0
                           /\ r \in AllowedRoles(client[q].action)
    BY <2>3 DEF AllowedNow, ActiveRoles
  <2>5. assigned'[Owner[client[q].token]][r] > 0
    <3>1. /\ assigned[Owner[client[q].token]][r] \in Int
          /\ assigned'[Owner[client[q].token]][r] \in Int
      BY <2>1, SessionAssumption DEF SessionInv, SessionTypeOK, WritesAreLocked
    <3> QED
      BY <2>2, <2>4, <3>1
  <2>6. (ActiveRoles(Owner[client[q].token]) \cap AllowedRoles(client[q].action) # {})'
    BY <2>4, <2>5 DEF ActiveRoles
  <2>7. /\ ~sessions'[client'[q].token].revoked
        /\ (~IsIdleExpired(client[q].token, client[q].at))'
        /\ status'[Owner[client'[q].token]] = "active"
    BY <2>2, <2>3 DEF AllowedNow, IsIdleExpired
  <2> QED
    BY <2>6, <2>7 DEF AllowedNow
<1>2. ASSUME Checked(client[q]) PROVE IsAdministrator(client[q].actor)'
  <2>1. client[q].actor \in Users
    <3>1. client[q] \in ChangingStatus \cup ChangingRole
      BY <1>2, Places, CallNames DEF SessionInv, Checked
    <3> QED
      BY <1>2, <3>1 DEF Checked, ChangingStatus, ChangingRole
  <2>2. /\ status'[client[q].actor] = status[client[q].actor]
        /\ assigned'[client[q].actor]["administrator"]
             >= assigned[client[q].actor]["administrator"]
    BY <1>0, <1>2, <2>1, NotWritten DEF Locked, Roles
  <2>3. /\ status[client[q].actor] = "active"
        /\ assigned[client[q].actor]["administrator"] > 0
    BY <1>0, <1>2 DEF CurrentReads, IsAdministrator, ActiveRoles
  <2>4. /\ assigned[client[q].actor]["administrator"] \in Int
        /\ assigned'[client[q].actor]["administrator"] \in Int
    BY <2>1, SessionAssumption DEF SessionInv, SessionTypeOK, WritesAreLocked, Roles
  <2>5. assigned'[client[q].actor]["administrator"] > 0
    BY <2>2, <2>3, <2>4
  <2> QED
    BY <2>2, <2>3, <2>5 DEF IsAdministrator, ActiveRoles, Roles
<1>3. ASSUME Withdrawing(client[q])
      PROVE  assigned'[client[q].target][client[q].role] > 0
  <2>1. client[q].target \in Users /\ client[q].role \in Roles
    <3>1. client[q] \in ChangingRole
      BY <1>3, Places, CallNames DEF SessionInv, Withdrawing
    <3> QED
      BY <3>1, SessionAssumption DEF ChangingRole
  <2>2. /\ assigned[client[q].target][client[q].role] > 0
        /\ assigned'[client[q].target][client[q].role]
             >= assigned[client[q].target][client[q].role]
    BY <1>0, <1>3, <2>1, NotWritten DEF Locked, CurrentReads
  <2>3. /\ assigned[client[q].target][client[q].role] \in Int
        /\ assigned'[client[q].target][client[q].role] \in Int
    BY <2>1, SessionAssumption DEF SessionInv, SessionTypeOK, WritesAreLocked
  <2> QED
    BY <2>2, <2>3
<1> QED
  BY <1>1, <1>2, <1>3 DEF CurrentReads, Checked, Withdrawing

LEMMA EndKeeps ==
    ASSUME SessionInv, NEW p \in Clients, End(p), WritesAreLocked(p)
    PROVE  SessionInv'
<1>1. /\ client'[p] = Idle
      /\ client' = [client EXCEPT ![p] = Idle]
      /\ \A q \in Clients \ {p} : client'[q] = client[q]
  BY EndMoves DEF SessionInv
<1>2. SessionTypeOK'
  BY <1>1 DEF SessionInv, SessionTypeOK, WritesAreLocked
<1>3. ActorsAreUsers'
  BY <1>1 DEF SessionInv, ActorsAreUsers, Idle
<1>4. LocksExclude'
  BY <1>1 DEF SessionInv, LocksExclude, Conflict, Idle
<1>5. ASSUME NEW q \in Clients PROVE Locked(client[q])'
  BY <1>1 DEF SessionInv, Locked, Checked, Withdrawing, Idle
<1>6. ASSUME NEW q \in Clients PROVE CurrentReads(client[q])'
  <2>1. CASE q = p
    BY <1>1, <2>1 DEF CurrentReads, Checked, Withdrawing, Idle
  <2>2. CASE q # p
    BY <1>1, <2>2, CurrentStays
  <2> QED
    BY <2>1, <2>2
<1> QED
  BY <1>2, <1>3, <1>4, <1>5, <1>6 DEF SessionInv

LEMMA AdvanceKeeps ==
    ASSUME SessionInv, NEW p \in Clients, NEW c \in Calls, Advance(p, c)
    PROVE  SessionInv'
<1>1. client'[p] = c /\ \A q \in Clients \ {p} : client'[q] = client[q]
  BY DEF Advance, SessionInv, SessionTypeOK
<1>2. SessionTypeOK'
  <2>1. client' \in [Clients -> {Idle} \cup Calls]
    BY DEF Advance, SessionInv, SessionTypeOK
  <2> QED
    BY <2>1 DEF Advance, SessionInv, SessionTypeOK
<1>3. ActorsAreUsers'
  BY <1>1 DEF Advance, SessionInv, ActorsAreUsers
<1>4. LocksExclude'
  <2> SUFFICES ASSUME NEW q \in Clients, NEW r \in Clients, q # r,
                      NEW l \in client'[q].held, NEW m \in client'[r].held,
                      l[1] = m[1], "update" \in {l[2], m[2]}
               PROVE  FALSE
    BY DEF LocksExclude, Conflict
  <2>1. CASE q # p /\ r # p
    BY <1>1, <2>1 DEF SessionInv, LocksExclude, Conflict
  <2>2. CASE q = p
    BY <1>1, <2>2 DEF SessionInv, LocksExclude, Conflict, Advance
  <2>3. CASE r = p
    BY <1>1, <2>3 DEF SessionInv, LocksExclude, Conflict, Advance
  <2> QED
    BY <2>1, <2>2, <2>3
<1>5. ASSUME NEW q \in Clients PROVE Locked(client[q])'
  <2>1. CASE q = p
    BY <1>1, <2>1 DEF Advance, Locked, Checked, Withdrawing
  <2>2. CASE q # p
    BY <1>1, <2>2 DEF SessionInv, Locked, Checked, Withdrawing
  <2> QED
    BY <2>1, <2>2
<1>6. ASSUME NEW q \in Clients PROVE CurrentReads(client[q])'
  <2>1. CASE q = p
    <3>1. CurrentReads(c) /\ client'[p] = c
      BY <1>1 DEF Advance
    <3>2. AllowedNow(c) => AllowedNow(client[p])'
      BY <1>1 DEF Advance, AllowedNow, IsIdleExpired, ActiveRoles
    <3>3. IsAdministrator(c.actor) => IsAdministrator(client[p].actor)'
      BY <1>1 DEF Advance, IsAdministrator, ActiveRoles
    <3> QED
      BY <2>1, <3>1, <3>2, <3>3 DEF Advance, CurrentReads, Checked, Withdrawing
  <2>2. CASE q # p
    <3>1. WritesAreLocked(p)
      BY RefuseWrites DEF Advance
    <3> QED
      BY <1>1, <2>2, <3>1, CurrentStays
  <2> QED
    BY <2>1, <2>2
<1> QED
  BY <1>2, <1>3, <1>4, <1>5, <1>6 DEF SessionInv

LEMMA InitSessionInv == SessionInit => SessionInv
<1> SUFFICES ASSUME SessionInit PROVE SessionInv
  OBVIOUS
<1>0. 0 \in 0..LastTick /\ 0 \in 0..MaxRows /\ 1 \in 0..MaxRows
  BY SessionAssumption
<1>1. PICK admins \in SUBSET Users :
         assigned = [u \in Users |-> [r \in Roles |->
           IF r = "user" \/ (r = "administrator" /\ u \in admins) THEN 1 ELSE 0]]
  BY DEF SessionInit
<1>2. SessionTypeOK
  BY <1>0, <1>1 DEF SessionInit, SessionTypeOK
<1>3. \A p \in Clients : client[p].pc = "idle" /\ client[p].held = {}
  BY DEF SessionInit, Idle
<1> QED
  BY <1>2, <1>3 DEF SessionInv, ActorsAreUsers, LocksExclude, Conflict, Locked, CurrentReads, Checked,
                    Withdrawing

LEMMA SessionInvStep == SessionInv /\ [SessionNext]_sessionVars => SessionInv'
<1> SUFFICES ASSUME SessionInv, [SessionNext]_sessionVars PROVE SessionInv'
  OBVIOUS
<1>1. ASSUME NEW p \in Clients, Work(p) PROVE SessionInv'
  BY <1>1, WorkSteps, EndKeeps, AdvanceKeeps
<1>2. CASE ClockTick
  <2>1. SessionTypeOK'
    BY <1>2, SessionAssumption DEF SessionInv, SessionTypeOK, ClockTick
  <2> QED
    BY <1>2, <2>1 DEF SessionInv, ClockTick, ActorsAreUsers, LocksExclude, Locked, CurrentReads, Checked,
       Withdrawing, AllowedNow, IsAdministrator, ActiveRoles, IsIdleExpired
<1>3. CASE UNCHANGED sessionVars
  BY <1>3 DEF SessionInv, sessionVars, SessionTypeOK, ActorsAreUsers, LocksExclude, Locked, CurrentReads, Checked,
     Withdrawing, AllowedNow, IsAdministrator, ActiveRoles, IsIdleExpired
<1> QED
  BY <1>1, <1>2, <1>3 DEF SessionNext, Work

-----------------------------------------------------------------------------
(* Theorems                                                                *)

LEMMA SessionInvInvariant == SessionSpec => []SessionInv
BY InitSessionInv, SessionInvStep, PTL DEF SessionSpec

(* Calls stay where their transaction may be, and no role is withdrawn     *)
(* more often than it was assigned.                                        *)
THEOREM SessionTypes == SessionSpec => []SessionTypeOK
BY SessionInvInvariant, PTL DEF SessionInv

(* The row locks exclude: two transactions never hold locks on a row of    *)
(* which one is FOR UPDATE, whatever the order they take them in.          *)
THEOREM LocksExcludeInvariant == SessionSpec => []LocksExclude
BY SessionInvInvariant, PTL DEF SessionInv

(* An allowed call rests to its commit on a session, a user and a role     *)
(* that are still good, although the roles are read without a lock: every  *)
(* change of a role waits for the user row the call has locked.            *)
THEOREM AllowedIsCurrentInvariant == SessionSpec => []AllowedIsCurrent
<1>1. SessionInv => AllowedIsCurrent
  BY DEF SessionInv, CurrentReads, AllowedNow, AllowedIsCurrent
<1> QED
  BY <1>1, SessionInvInvariant, PTL

(* A change commits for an actor only while the actor is an active         *)
(* administrator.                                                          *)
THEOREM ActorIsAdministratorInvariant == SessionSpec => []ActorIsAdministrator
<1>1. ASSUME SessionInv, NEW p \in Clients, client[p].pc = "apply",
             client[p].call # "bootstrap"
      PROVE  client[p].actor = System \/ IsAdministrator(client[p].actor)
  <2>1. client[p].call \in {"set_user_status", "change_role"}
    BY <1>1, Places, CallNames DEF SessionInv
  <2> QED
    BY <1>1, <2>1 DEF SessionInv, CurrentReads, Checked
<1>2. SessionInv => ActorIsAdministrator
  BY <1>1 DEF ActorIsAdministrator
<1> QED
  BY <1>2, SessionInvInvariant, PTL

(* A revoked session stays revoked, although an allowed call writes the    *)
(* whole row back: it holds the row since it found it not revoked.         *)
THEOREM LogoutIsFinalHolds == SessionSpec => LogoutIsFinal
<1> DEFINE Step == \A t \in Tokens : sessions[t].revoked => sessions'[t].revoked
<1>1. ASSUME SessionInv, NEW p \in Clients, Work(p) PROVE Step
  <2>1. CASE CommitAllowed(p)
    <3>1. /\ client[p].token \in Tokens
          /\ ~sessions[client[p].token].revoked
      BY <1>1, <2>1, Places DEF CommitAllowed, SessionInv, Allowed, CurrentReads, AllowedNow
    <3> QED
      BY <1>1, <2>1, <3>1 DEF CommitAllowed, SessionInv, SessionTypeOK
  <2>2. CASE CommitLogout(p)
    <3>1. client[p].token \in Tokens
      BY <1>1, <2>2, Places DEF CommitLogout, SessionInv, LoggingOut
    <3> QED
      BY <1>1, <2>2, <3>1 DEF CommitLogout, SessionInv, SessionTypeOK
  <2>3. CASE UNCHANGED sessions
    BY <2>3
  <2> QED
    BY <1>1, <2>1, <2>2, <2>3 DEF Work, BeginAuthorize, ReadSession, Decide, BeginLogout,
       LogoutRead, BeginChange, RequireAdministrator, ReadTarget, SetUserStatus, ReadRole,
       AuditRole, ChangeRole, BeginBootstrap, BootstrapRead, CommitBootstrap, Abort, Begin,
       Refuse
<1>2. SessionInv /\ [SessionNext]_sessionVars => [Step]_sessionVars
  BY <1>1 DEF SessionNext, Work, ClockTick
<1>3. SessionSpec => [][Step]_sessionVars
  BY <1>2, SessionInvInvariant, PTL DEF SessionSpec
<1> QED
  BY <1>3 DEF LogoutIsFinal


=============================================================================

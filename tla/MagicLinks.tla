----------------------------- MODULE MagicLinks -----------------------------
(***************************************************************************)
(* Sign-in by magic link: a request is admitted or limited, a durable job  *)
(* issues the link through the identity and mail providers, and a browser  *)
(* confirms it once for a session.                                         *)
(*                                                                         *)
(* A transaction of the identity store is one action: attempt, invitation  *)
(* and user rows are read FOR UPDATE, limiter and subject are serialised   *)
(* by advisory locks.  Provider calls lie between transactions.  A raise   *)
(* inside a transaction rolls back everything it wrote, audit rows and the *)
(* state expired included, so a refused call changes nothing.              *)
(*                                                                         *)
(* A request and its only attempt share a row and an identifier here.      *)
(* Identifiers are random UUIDs: any unused one may come next.  A user is  *)
(* known by the email that uq_product_users_email keeps unique.            *)
(***************************************************************************)
EXTENDS Integers, FiniteSets

CONSTANTS
    Emails,       \* normalised addresses
    Origins,      \* origin fingerprints
    Subjects,     \* account identifiers of the identity provider
    Ids,          \* request identifiers, ordered
    Workers,      \* job workers
    Browsers,     \* clients confirming a link
    Nobody,       \* no email
    Window,       \* limiter window and life of a link: 15 minutes, in ticks
    EmailLimit,   \* admitted requests per email and window
    OriginLimit,  \* admitted requests per origin and window
    MaxDelay,     \* age of a request's timestamp when its transaction runs
    MaxTime       \* bound on the clock

ASSUME LinkAssumption ==
    /\ Ids \subseteq Nat
    /\ Window \in Nat \ {0} /\ MaxTime \in Nat /\ MaxDelay \in Nat
    /\ EmailLimit \in Nat /\ OriginLimit \in Nat
    /\ Nobody \notin Emails

VARIABLES
    now,         \* the clock
    invitation,  \* identity_invitations: status by email
    user,        \* product_users: status by email
    account,     \* external_identity_links: the user of each subject
    links,       \* magic_link_requests with their magic_link_attempts
    jobs,        \* issue jobs that are not over
    sent,        \* links whose mail the provider accepted
    session,     \* product_sessions: the user signed in by each link
    issuer,      \* where each worker's issue_attempt is
    browser      \* where each browser's confirm_magic_link is

vars == <<now, invitation, user, account, links, jobs, sent, session, issuer,
          browser>>

-----------------------------------------------------------------------------
(* Rows and process state                                                  *)

AttemptStates ==
    {"none", "pending", "issuing", "issued", "consumed", "superseded", "failed"}
FinalStates == {"consumed", "superseded", "failed"}
Decisions == {"eligible", "not_eligible", "limited"}

LinkRow ==
    [row : {"absent", "open", "committed", "rolled_back"},
     email : Emails \cup {Nobody}, origin : Origins \cup {Nobody},
     at : 0..MaxTime, decision : Decisions, kind : {"invitation", "product_user"},
     state : AttemptStates, expires : 0..(MaxTime + Window)]

NoLink ==
    [row |-> "absent", email |-> Nobody, origin |-> Nobody, at |-> 0,
     decision |-> "not_eligible", kind |-> "product_user", state |-> "none",
     expires |-> 0]

IssueCall ==
    [pc : {"idle", "load", "provider", "fail", "final"}, id : Ids \cup {0},
     at : 0..MaxTime]

ConfirmCall ==
    [pc : {"idle", "verify", "final"}, id : Ids \cup {0}, at : 0..MaxTime,
     subject : Subjects \cup {Nobody}, email : Emails \cup {Nobody}]

IssuerIdle == [pc |-> "idle", id |-> 0, at |-> 0]
BrowserIdle == [pc |-> "idle", id |-> 0, at |-> 0, subject |-> Nobody, email |-> Nobody]

TypeOK ==
    /\ now \in 0..MaxTime
    /\ invitation \in [Emails -> {"none", "active", "accepted"}]
    /\ user \in [Emails -> {"none", "active", "disabled"}]
    /\ account \in [Subjects -> Emails \cup {Nobody}]
    /\ links \in [Ids -> LinkRow]
    /\ jobs \subseteq Ids
    /\ sent \subseteq Ids
    /\ session \in [Ids -> Emails \cup {Nobody}]
    /\ issuer \in [Workers -> IssueCall]
    /\ browser \in [Browsers -> ConfirmCall]

Init ==
    /\ now = 0
    /\ invitation = [e \in Emails |-> "none"]
    /\ user = [e \in Emails |-> "none"]
    /\ account = [s \in Subjects |-> Nobody]
    /\ links = [i \in Ids |-> NoLink]
    /\ jobs = {}
    /\ sent = {}
    /\ session = [i \in Ids |-> Nobody]
    /\ issuer = [w \in Workers |-> IssuerIdle]
    /\ browser = [b \in Browsers |-> BrowserIdle]

-----------------------------------------------------------------------------
(* request_magic_link                                                      *)

Committed(i) == links[i].row = "committed"

(* recent_requests: every committed row counts, the limited ones too.      *)
Recent(field, value, t) ==
    Cardinality({i \in Ids : /\ Committed(i)
                             /\ links[i][field] = value
                             /\ links[i].at > t - Window})

(* The limiter's locks on email and origin are held until the commit.      *)
LimiterFree(e, o) ==
    \A i \in Ids : links[i].row = "open" => links[i].email # e /\ links[i].origin # o

Invited(e) == invitation[e] = "active"
Active(e) == user[e] = "active"
Eligible(e) == Invited(e) \/ Active(e)

(* Mutant: the limit is exceeded by one.                                   *)
DecisionOffByOne(e, o, t) ==
    IF Recent("email", e, t) > EmailLimit \/ Recent("origin", o, t) > OriginLimit
    THEN "limited"
    ELSE IF Eligible(e) THEN "eligible" ELSE "not_eligible"

Decision(e, o, t) ==
    IF Recent("email", e, t) >= EmailLimit \/ Recent("origin", o, t) >= OriginLimit
    THEN "limited"
    ELSE IF Eligible(e) THEN "eligible" ELSE "not_eligible"

(* An invitation that is still active comes before the user.               *)
NewRequest(e, o, t, decision) ==
    [NoLink EXCEPT !.row = "open", !.email = e, !.origin = o, !.at = t,
        !.decision = decision,
        !.kind = IF Invited(e) THEN "invitation" ELSE "product_user"]

(* t was read before the locks were granted.  The issue job is submitted   *)
(* in a session of its own, before this transaction commits; if that       *)
(* fails the attempt is stored as failed.                                  *)
RequestLink(i, e, o, t) ==
    LET decision == Decision(e, o, t)
        row == NewRequest(e, o, t, decision)
    IN
    /\ links[i].row = "absent"
    /\ LimiterFree(e, o)
    /\ \/ decision # "eligible" /\ links' = [links EXCEPT ![i] = row] /\ UNCHANGED jobs
       \/ /\ decision = "eligible"
          /\ links' = [links EXCEPT ![i] = [row EXCEPT !.state = "pending"]]
          /\ jobs' = jobs \cup {i}
       \/ /\ decision = "eligible"
          /\ links' = [links EXCEPT ![i] = [row EXCEPT !.state = "failed"]]
          /\ UNCHANGED jobs
    /\ UNCHANGED <<now, invitation, user, account, sent, session, issuer, browser>>

CommitRequest(i) ==
    /\ links[i].row = "open"
    /\ links' = [links EXCEPT ![i].row = "committed"]
    /\ UNCHANGED <<now, invitation, user, account, jobs, sent, session, issuer, browser>>

RollbackRequest(i) ==
    /\ links[i].row = "open"
    /\ links' = [links EXCEPT ![i] = [NoLink EXCEPT !.row = "rolled_back"]]
    /\ UNCHANGED <<now, invitation, user, account, jobs, sent, session, issuer, browser>>

-----------------------------------------------------------------------------
(* issue_attempt, the handler of the job                                   *)

IssuerAt(w, pc) == issuer' = [issuer EXCEPT ![w].pc = pc]
SetState(i, state) == links' = [links EXCEPT ![i].state = state]

(* A job whose lease ended is started again while its worker may go on.    *)
BeginIssue(w, i) ==
    /\ issuer[w].pc = "idle"
    /\ i \in jobs
    /\ issuer' = [issuer EXCEPT ![w] = [pc |-> "load", id |-> i, at |-> now]]
    /\ UNCHANGED <<now, invitation, user, account, links, jobs, sent, session, browser>>

JobOver(w) ==
    /\ issuer' = [issuer EXCEPT ![w] = IssuerIdle]
    /\ jobs' = jobs \ {issuer[w].id}

(* Mutant: an attempt that is being issued is issued again.                *)
PendingOrIssuing(i) == Committed(i) /\ links[i].state \in {"pending", "issuing"}

(* Not visible yet, or no longer pending, is not issuable.                 *)
Issuable(i) == Committed(i) /\ links[i].state = "pending"

SubjectActive(i) ==
    LET e == links[i].email IN
    IF links[i].kind = "invitation" THEN Invited(e) ELSE Active(e)

IssueLoad(w) ==
    LET i == issuer[w].id IN
    /\ issuer[w].pc = "load"
    /\ \/ ~Issuable(i) /\ JobOver(w) /\ UNCHANGED links
       \/ Issuable(i) /\ ~SubjectActive(i) /\ SetState(i, "failed") /\ JobOver(w)
       \/ /\ Issuable(i) /\ SubjectActive(i) /\ SetState(i, "issuing")
          /\ IssuerAt(w, "provider") /\ UNCHANGED jobs
    /\ UNCHANGED <<now, invitation, user, account, sent, session, browser>>

(* generate_magic_link and send_magic_link.  The mail may be out although  *)
(* the call fails.                                                         *)
ProviderAnswers(w) ==
    LET i == issuer[w].id IN
    /\ issuer[w].pc = "provider"
    /\ \/ sent' = sent \cup {i} /\ IssuerAt(w, "final")
       \/ sent' \in {sent, sent \cup {i}} /\ IssuerAt(w, "fail")
    /\ UNCHANGED <<now, invitation, user, account, links, jobs, session, browser>>

(* An IdentityError is recorded without looking at the state again.        *)
IssueFails(w) ==
    /\ issuer[w].pc = "fail"
    /\ SetState(issuer[w].id, "failed")
    /\ JobOver(w)
    /\ UNCHANGED <<now, invitation, user, account, sent, session, browser>>

SameSubject(i, j) == links[i].kind = links[j].kind /\ links[i].email = links[j].email
Current(i) == {j \in Ids \ {i} : Committed(j) /\ SameSubject(i, j) /\ links[j].state = "issued"}

Newer(i, j) == links[i].at > links[j].at \/ (links[i].at = links[j].at /\ i > j)

(* Fifteen minutes from the time the link was asked of the provider.       *)
Expiry(t) == t + Window

Issued(i, t) == [links[i] EXCEPT !.state = "issued", !.expires = Expiry(t)]

(* Mutant: the link that is accepted last wins.                            *)
IssueLastWins(w) ==
    LET i == issuer[w].id IN
    /\ issuer[w].pc = "final"
    /\ links' = [j \in Ids |->
           IF j = i THEN Issued(i, issuer[w].at)
           ELSE IF j \in Current(i) THEN [links[j] EXCEPT !.state = "superseded"]
           ELSE links[j]]
    /\ JobOver(w)
    /\ UNCHANGED <<now, invitation, user, account, sent, session, browser>>

(* The newer request of a subject wins, whichever is accepted first.       *)
IssueLink(w) ==
    LET i == issuer[w].id IN
    /\ issuer[w].pc = "final"
    /\ \/ /\ \E j \in Current(i) : ~Newer(i, j)
          /\ SetState(i, "superseded")
       \/ /\ \A j \in Current(i) : Newer(i, j)
          /\ links' = [j \in Ids |->
                 IF j = i THEN Issued(i, issuer[w].at)
                 ELSE IF j \in Current(i) THEN [links[j] EXCEPT !.state = "superseded"]
                 ELSE links[j]]
    /\ JobOver(w)
    /\ UNCHANGED <<now, invitation, user, account, sent, session, browser>>

(* The worker dies, or another exception ends the job: it is tried again   *)
(* while attempts are left.                                                *)
IssuerCrash(w) ==
    /\ issuer[w].pc # "idle"
    /\ issuer' = [issuer EXCEPT ![w] = IssuerIdle]
    /\ jobs' \in {jobs, jobs \ {issuer[w].id}}
    /\ UNCHANGED <<now, invitation, user, account, links, sent, session, browser>>

-----------------------------------------------------------------------------
(* confirm_magic_link                                                      *)

Live(i, t) == Committed(i) /\ links[i].state = "issued" /\ t < links[i].expires

ConfirmStart(b, i) ==
    /\ browser[b].pc = "idle"
    /\ i \in sent
    /\ Live(i, now)
    /\ browser' = [browser EXCEPT ![b] = [BrowserIdle EXCEPT !.pc = "verify", !.id = i, !.at = now]]
    /\ UNCHANGED <<now, invitation, user, account, links, jobs, sent, session, issuer>>

(* The provider proves control of some account.                            *)
VerifyLink(b, s, e) ==
    /\ browser[b].pc = "verify"
    /\ browser' = [browser EXCEPT ![b].pc = "final", ![b].subject = s, ![b].email = e]
    /\ UNCHANGED <<now, invitation, user, account, links, jobs, sent, session, issuer>>

(* The link is looked at again, with the time the call began at.           *)
StillLive(i, t) == Live(i, t)

Unlinked(s) == account[s] = Nobody

(* Mutant: the proven email is not compared.                               *)
ProofOfSubject(i, s, e) ==
    LET f == links[i].email IN
    IF links[i].kind = "product_user"
    THEN Unlinked(s) \/ account[s] = f
    ELSE Unlinked(s) /\ Invited(f)

(* The checks of the second transaction: whose account and whose email.    *)
ProofAccepted(i, s, e) ==
    LET f == links[i].email IN
    /\ e = f
    /\ IF links[i].kind = "product_user"
       THEN Unlinked(s) \/ account[s] = f
       ELSE Unlinked(s) /\ Invited(f)

(* uq_external_identity_user_provider, uq_product_users_email and          *)
(* uq_product_sessions_attempt.                                            *)
RowsUnique(i, s, e) ==
    /\ Unlinked(s) => \A r \in Subjects : account[r] # e
    /\ links[i].kind = "invitation" => user[e] = "none"
    /\ session[i] = Nobody

AcceptInvitation(e) == invitation' = [invitation EXCEPT ![e] = "accepted"]
LinkAccount(s, e) == account' = [account EXCEPT ![s] = e]

ConfirmLink(b) ==
    LET i == browser[b].id  s == browser[b].subject  e == browser[b].email IN
    /\ browser[b].pc = "final"
    /\ StillLive(i, browser[b].at)
    /\ ProofAccepted(i, s, e)
    /\ RowsUnique(i, s, e)
    /\ IF links[i].kind = "invitation"
       THEN AcceptInvitation(e) /\ user' = [user EXCEPT ![e] = "active"]
       ELSE UNCHANGED <<invitation, user>>
    /\ LinkAccount(s, e)
    /\ SetState(i, "consumed")
    /\ session' = [session EXCEPT ![i] = e]
    /\ browser' = [browser EXCEPT ![b] = BrowserIdle]
    /\ UNCHANGED <<now, jobs, sent, issuer>>

(* Provider failure, a refused proof or row, a closed tab.                 *)
ConfirmRefused(b) ==
    /\ browser[b].pc # "idle"
    /\ browser' = [browser EXCEPT ![b] = BrowserIdle]
    /\ UNCHANGED <<now, invitation, user, account, links, jobs, sent, session, issuer>>

-----------------------------------------------------------------------------
(* Administration and time                                                 *)

PreloadInvitation(e) ==
    /\ invitation[e] = "none"
    /\ invitation' = [invitation EXCEPT ![e] = "active"]
    /\ UNCHANGED <<now, user, account, links, jobs, sent, session, issuer, browser>>

ChangeUserStatus(e, to) ==
    /\ user[e] # "none"
    /\ user' = [user EXCEPT ![e] = to]
    /\ UNCHANGED <<now, invitation, account, links, jobs, sent, session, issuer, browser>>

Tick ==
    /\ now < MaxTime
    /\ now' = now + 1
    /\ UNCHANGED <<invitation, user, account, links, jobs, sent, session, issuer, browser>>

-----------------------------------------------------------------------------
(* Specification                                                           *)

RequestStep(i) ==
    \/ \E e \in Emails, o \in Origins, t \in (now - MaxDelay)..now :
           t >= 0 /\ RequestLink(i, e, o, t)
    \/ CommitRequest(i) \/ RollbackRequest(i)

IssuerStep(w) ==
    \/ \E i \in Ids : BeginIssue(w, i)
    \/ IssueLoad(w) \/ ProviderAnswers(w) \/ IssueFails(w) \/ IssueLink(w)
    \/ IssuerCrash(w)

BrowserStep(b) ==
    \/ \E i \in Ids : ConfirmStart(b, i)
    \/ \E s \in Subjects, e \in Emails : VerifyLink(b, s, e)
    \/ ConfirmLink(b) \/ ConfirmRefused(b)

Next ==
    \/ \E i \in Ids : RequestStep(i)
    \/ \E w \in Workers : IssuerStep(w)
    \/ \E b \in Browsers : BrowserStep(b)
    \/ \E e \in Emails : PreloadInvitation(e)
    \/ \E e \in Emails, to \in {"active", "disabled"} : ChangeUserStatus(e, to)
    \/ Tick

Spec == Init /\ [][Next]_vars

-----------------------------------------------------------------------------
(* Safety                                                                  *)

(* A link signs in the person it was sent to, once: a consumed link has    *)
(* exactly the session of its own subject, and no other link has one.      *)
SessionMatchesLink ==
    \A i \in Ids :
        session[i] = IF links[i].state = "consumed" THEN links[i].email ELSE Nobody

(* A link gives way only to a link of a newer request that was issued.     *)
NewerLinkWins ==
    \A i \in Ids : links[i].state = "superseded" =>
        \E j \in Ids : /\ Committed(j) /\ SameSubject(i, j) /\ Newer(j, i)
                       /\ links[j].state \in {"issued", "consumed", "superseded"}

Admitted(field, value, t) ==
    {i \in Ids : /\ Committed(i) /\ links[i].decision # "limited"
                 /\ links[i][field] = value
                 /\ links[i].at \in (t - Window + 1)..t}

(* No window of 15 minutes admits more requests than the limits, although  *)
(* the timestamps are older than the transactions that check them.         *)
RequestsLimited ==
    \A t \in 0..MaxTime :
        /\ \A e \in Emails : Cardinality(Admitted("email", e, t)) <= EmailLimit
        /\ \A o \in Origins : Cardinality(Admitted("origin", o, t)) <= OriginLimit

(* A consumed, superseded or failed link never comes back, and a           *)
(* provider's account never moves to another user.                         *)
NeverRevived ==
    [][/\ \A i \in Ids : /\ Committed(i)
                         /\ links[i].state \in FinalStates
                         => links'[i].state = links[i].state
       /\ \A s \in Subjects : account[s] # Nobody => account'[s] = account[s]]_vars
=============================================================================

--------------------------- MODULE CriteriaProofs ---------------------------
(* Proofs about the criteria service, for any number of clients, workers,  *)
(* concepts, listings and jobs, and whatever the model provider answers.   *)
EXTENDS Criteria, FiniteSetTheorems, WellFoundedInduction, TLAPS

-----------------------------------------------------------------------------
(* The rules and the model extractor                                       *)

LEMMA MinIsMember ==
    ASSUME NEW S \in SUBSET Nat, S # {}
    PROVE  Min(S) \in S
<1> DEFINE R == {ss \in Nat \X Nat : ss[1] < ss[2]}
<1>1. IsWellFoundedOn(R, Nat)
  BY NatLessThanWellFounded, Zenon DEF OpToRel
<1>2. PICK n \in S : \A m \in S : ~ (<<m, n>> \in R)
  <2> HIDE DEF R
  <2> QED
    BY <1>1, WFMin
<1>3. ASSUME NEW m \in S PROVE n =< m
  <2>1. m \in Nat /\ n \in Nat
    OBVIOUS
  <2>2. m < n => <<m, n>> \in R
    BY <2>1
  <2> QED
    BY <1>2, <2>1, <2>2
<1> QED
  BY <1>3 DEF Min

(* What a rule sees of a listing: the fields of its concept as they are.   *)
LEMMA PermittedInput ==
    ASSUME NEW l \in Listing
    PROVE  /\ BuildPermittedInput(l, "balcon").description_text = l.description_text
           /\ BuildPermittedInput(l, "balcon").amenities = l.amenities
           /\ BuildPermittedInput(l, "ambientes").description_text = l.description_text
           /\ BuildPermittedInput(l, "ambientes").rooms = l.rooms
           /\ BuildPermittedInput(l, "piso").description_text = l.description_text
           /\ BuildPermittedInput(l, "piso").floor = l.floor
           /\ BuildPermittedInput(l, "tipo_cocina").description_text = l.description_text
BY DEF BuildPermittedInput, InputFields

LEMMA TextIsPhrases ==
    ASSUME NEW l \in Listing, NEW i \in DOMAIN l.description_text
    PROVE  l.description_text[i] = [says |-> l.description_text[i].says,
                                    n |-> l.description_text[i].n]
<1>1. l.description_text \in Seq(Phrase)
  BY DEF Listing
<1>2. l.description_text[i] \in Phrase
  BY <1>1
<1> QED
  BY <1>2 DEF Phrase

(* What a rule finds in a text is what the text says.                      *)
LEMMA SearchFinds ==
    ASSUME NEW text, NEW phrases
    PROVE  /\ Search(text, phrases) # {} <=>
                 {q.says : q \in {text[i] : i \in DOMAIN text}} \cap phrases # {}
           /\ Search(text, phrases) = {} <=> \A i \in DOMAIN text : text[i].says \notin phrases
BY DEF Search

(* What Grounded asks of the outcome of a rule that found a value.         *)
Traced(key, l, out) ==
    Given(out.value) =>
       \/ out.fragment = {"description_text"} /\ TextSays(l, key, out.value)
       \/ key = "balcon" /\ out.value = "true" /\ out.fragment = {"amenities"}
          /\ TextIsSilent(l, BalconPositive) /\ l.amenities \cap BalconPositive # {}
       \/ out.fragment = {} /\ FieldSays(l, key, out.value)

(* The rule for balconies: a denial, else a mention, else an amenity.      *)
LEMMA BalconGrounded ==
    ASSUME NEW l \in Listing, NEW p, p.description_text = l.description_text,
           p.amenities = l.amenities
    PROVE  Traced("balcon", l, RunBalcon(p))
<1> DEFINE text == l.description_text
           out == RunBalcon(p)
<1>1. CASE Search(text, BalconNegative) # {}
  <2>1. out.value = "false" /\ out.fragment = {"description_text"}
    BY <1>1 DEF RunBalcon, InText, Outcome
  <2>2. TextSays(l, "balcon", "false")
    BY <1>1, SearchFinds DEF TextSays
  <2> QED
    BY <2>1, <2>2 DEF Traced
<1>2. CASE Search(text, BalconNegative) = {} /\ Search(text, BalconPositive) # {}
  <2>1. out.value = "true" /\ out.fragment = {"description_text"}
    BY <1>2 DEF RunBalcon, InText, Outcome
  <2>2. TextSays(l, "balcon", "true")
    BY <1>2, SearchFinds DEF TextSays
  <2> QED
    BY <2>1, <2>2 DEF Traced
<1>3. CASE /\ Search(text, BalconNegative) = {} /\ Search(text, BalconPositive) = {}
           /\ l.amenities \cap BalconPositive # {}
  <2>1. out.value = "true" /\ out.fragment = {"amenities"}
    BY <1>3 DEF RunBalcon, Outcome
  <2>2. TextIsSilent(l, BalconPositive)
    BY <1>3, SearchFinds DEF TextIsSilent
  <2> QED
    BY <1>3, <2>1, <2>2 DEF Traced
<1>4. CASE /\ Search(text, BalconNegative) = {} /\ Search(text, BalconPositive) = {}
           /\ l.amenities \cap BalconPositive = {}
  BY <1>4 DEF RunBalcon, NoEvidence, Outcome, Given, Traced
<1> QED
  BY <1>1, <1>2, <1>3, <1>4

(* The first number of the text belongs to the phrase it stands in.        *)
LEMMA NumberInText ==
    ASSUME NEW l \in Listing, NEW phrase, NEW field
    PROVE  LET out == FirstNumber(l.description_text, phrase, field) IN
           \/ out.value = field /\ out.fragment = {} /\ TextIsSilent(l, {phrase})
           \/ /\ out.fragment = {"description_text"}
              /\ [says |-> phrase, n |-> out.value] \in
                   {l.description_text[i] : i \in DOMAIN l.description_text}
<1> DEFINE text == l.description_text
           found == Search(text, {phrase})
<1>1. text \in Seq(Phrase)
  BY DEF Listing
<1>2. found \in SUBSET Nat
  BY <1>1 DEF Search
<1>3. CASE found = {}
  BY <1>3, SearchFinds DEF FirstNumber, Outcome, TextIsSilent
<1>4. CASE found # {}
  <2> DEFINE i == Min(found)
  <2>1. i \in found
    BY <1>2, <1>4, MinIsMember
  <2>2. i \in DOMAIN text /\ text[i].says = phrase
    BY <2>1 DEF Search
  <2>3. /\ FirstNumber(text, phrase, field).value = text[i].n
        /\ FirstNumber(text, phrase, field).fragment = {"description_text"}
    BY <1>4 DEF FirstNumber, InText, Outcome
  <2>4. text[i] = [says |-> text[i].says, n |-> text[i].n]
    BY <2>2, TextIsPhrases
  <2>5. text[i] \in {text[m] : m \in DOMAIN text}
    BY <2>2
  <2> QED
    BY <2>2, <2>3, <2>4, <2>5
<1> QED
  BY <1>3, <1>4

LEMMA AmbientesGrounded ==
    ASSUME NEW l \in Listing, NEW p, p.description_text = l.description_text,
           p.rooms = l.rooms
    PROVE  Traced("ambientes", l, RunAmbientes(p))
BY NumberInText DEF RunAmbientes, Traced, TextSays, FieldSays

LEMMA PisoGrounded ==
    ASSUME NEW l \in Listing, NEW p, p.description_text = l.description_text,
           p.floor = l.floor
    PROVE  Traced("piso", l, RunPiso(p))
BY NumberInText DEF RunPiso, Traced, TextSays, FieldSays

(* The rule for kitchens: none, else separate, else integrated.            *)
LEMMA CocinaGrounded ==
    ASSUME NEW l \in Listing, NEW p, p.description_text = l.description_text
    PROVE  Traced("tipo_cocina", l, RunTipoCocina(p))
<1> DEFINE text == l.description_text
           out == RunTipoCocina(p)
<1>1. CASE Search(text, CocinaNone) # {}
  <2>1. out.value = "none" /\ out.fragment = {"description_text"}
    BY <1>1 DEF RunTipoCocina, InText, Outcome
  <2>2. TextSays(l, "tipo_cocina", "none")
    BY <1>1, SearchFinds DEF TextSays
  <2> QED
    BY <2>1, <2>2 DEF Traced
<1>2. CASE Search(text, CocinaNone) = {} /\ Search(text, CocinaSeparada) # {}
  <2>1. out.value = "separada" /\ out.fragment = {"description_text"}
    BY <1>2 DEF RunTipoCocina, InText, Outcome
  <2>2. TextSays(l, "tipo_cocina", "separada")
    BY <1>2, SearchFinds DEF TextSays
  <2> QED
    BY <2>1, <2>2 DEF Traced
<1>3. CASE /\ Search(text, CocinaNone) = {} /\ Search(text, CocinaSeparada) = {}
           /\ Search(text, CocinaIntegrada) # {}
  <2>1. out.value = "integrada" /\ out.fragment = {"description_text"}
    BY <1>3 DEF RunTipoCocina, InText, Outcome
  <2>2. \A i \in DOMAIN text : text[i].says \notin CocinaSeparada \cup CocinaNone
    BY <1>3, SearchFinds
  <2>3. TextSays(l, "tipo_cocina", "integrada")
    BY <1>3, <2>2, SearchFinds DEF TextSays
  <2> QED
    BY <2>1, <2>3 DEF Traced
<1>4. CASE /\ Search(text, CocinaNone) = {} /\ Search(text, CocinaSeparada) = {}
           /\ Search(text, CocinaIntegrada) = {}
  BY <1>4 DEF RunTipoCocina, NoEvidence, Outcome, Given, Traced
<1> QED
  BY <1>1, <1>2, <1>3, <1>4

(* A rule's observation can be traced to what it quotes, or to the field.  *)
LEMMA RuleGrounded ==
    ASSUME NEW key \in RuleConcepts, NEW l \in Listing
    PROVE  /\ Grounded(key, l, RuleObservation(key, l))
           /\ RuleObservation(key, l).state = "active"
<1> DEFINE p == BuildPermittedInput(l, key)
           out == RunRule(key, p)
           o == RuleObservation(key, l)
<1>1. Traced(key, l, out)
  <2>1. CASE key = "balcon"
    BY <2>1, PermittedInput, BalconGrounded DEF RunRule
  <2>2. CASE key = "ambientes"
    BY <2>2, PermittedInput, AmbientesGrounded DEF RunRule
  <2>3. CASE key = "piso"
    BY <2>3, PermittedInput, PisoGrounded DEF RunRule
  <2>4. CASE key = "tipo_cocina"
    BY <2>4, PermittedInput, CocinaGrounded DEF RunRule
  <2> QED
    BY <2>1, <2>2, <2>3, <2>4 DEF RuleConcepts
<1>2. /\ o.value = out.value /\ o.score = RuleScore(out)
      /\ o.confidence = IF Given(out.value) THEN 10 ELSE 0
      /\ o.fragment = out.fragment /\ o.state = "active"
  BY DEF RuleObservation, Observed
<1> HIDE DEF out, o, p
<1>3. o.value = None => o.score = 0 /\ o.confidence = 0
  BY <1>2 DEF RuleScore, Given
<1>4. Given(o.value) => o.score = IF o.fragment # {} THEN 10 ELSE 6
  BY <1>2 DEF RuleScore, Given
<1>5. Grounded(key, l, o) /\ o.state = "active"
  BY <1>1, <1>2, <1>3, <1>4 DEF Grounded, Traced
<1> QED
  BY <1>5 DEF o

LEMMA EnumIsGiven ==
    ASSUME NEW key, NEW value \in Enum(key)
    PROVE  Given(value)
<1>1. Enum(key) = Enum("luminosidad") \/ Enum(key) = Enum("estado_general")
  BY DEF Enum
<1>2. {"luminosidad", "estado_general"} \subseteq ModelConcepts
  BY DEF ModelConcepts, Contract, RuleConcepts
<1> QED
  BY <1>1, <1>2, NoneAssumption DEF Given

(* An answer of the model becomes an observation when it is valid, the     *)
(* first one that is; without one the observation is failed.               *)
LEMMA ModelGrounded ==
    ASSUME NEW key \in ModelConcepts, NEW l, NEW answers \in Answers
    PROVE  LET o == ModelObservation(key, answers) IN
           /\ o.state \in {"active", "failed"}
           /\ o.state = "active" => Grounded(key, l, o)
<1> DEFINE valid == {i \in DOMAIN answers : Accepted(key, answers[i])}
           first == answers[Min(valid)]
           o == ModelObservation(key, answers)
<1>0. answers \in Seq(Output \cup {None})
  BY CriteriaAssumption
<1>1. CASE valid = {}
  BY <1>1 DEF ModelObservation, Observed
<1>2. CASE valid # {}
  <2>1. valid \in SUBSET Nat
    BY <1>0
  <2>2. Min(valid) \in valid
    BY <1>2, <2>1, MinIsMember
  <2>3. Accepted(key, first)
    BY <2>2
  <2>4. Answered(key, first.value, first.confidence)
    BY <2>2, <2>3 DEF Answered
  <2> HIDE DEF first
  <2>5. first.value \in Enum(key) /\ first.evidence
    BY <2>3 DEF Accepted, ValidModelOutput
  <2>6. /\ o.value = first.value /\ o.score = 0 /\ o.confidence = first.confidence
        /\ o.fragment = {"model"} /\ o.state = "active"
    BY <1>2, <2>5 DEF ModelObservation, Observed, first
  <2>7. Given(first.value)
    BY <2>5, EnumIsGiven
  <2> QED
    BY <2>6, <2>7, <2>4 DEF Grounded, Given
<1> QED
  BY <1>1, <1>2

-----------------------------------------------------------------------------
(* The inductive invariant: registry and preferences                       *)

(* What a request relies on at each of its steps.  The concept it read is  *)
(* still there, in that version or a later one; the facts it saw are of    *)
(* its own concept.                                                        *)
RequestOK(r, rows) ==
    /\ r = [at |-> r.at, draft |-> r.draft, read |-> r.read, seen |-> r.seen,
            criteria |-> r.criteria]
    /\ r.at \in {"concept", "version", "invalidate"} => r.draft \in ConceptDrafts
    /\ r.at = "concept" =>
          /\ r.read \in Nat
          /\ r.read > 0 => /\ Given(rows[r.draft.key])
                           /\ r.read =< rows[r.draft.key].version
    /\ r.at = "version" => r.read \in 0..(MaxVersions - 1)
    /\ r.at = "fact" => \A f \in r.seen : f.concept_key = r.draft.concept_key

FactOK(f) ==
    f = [id |-> f.id, concept_key |-> f.concept_key, weight |-> f.weight, state |-> f.state]

RegistryOK ==
    /\ DOMAIN concepts = Keys
    /\ \A k \in Keys : Given(concepts[k]) => concepts[k].version \in 1..MaxVersions
    /\ versions \subseteq Keys \X (1..MaxVersions)

PreferenceInv ==
    /\ RegistryOK
    /\ DOMAIN client = Clients
    /\ \A c \in Clients : RequestOK(client[c], concepts)
    /\ \A f \in facts : FactOK(f)
    /\ OnePreference

(* The registry only grows.                                                *)
RegistryGrows ==
    \A k \in Keys : Given(concepts[k]) =>
        Given(concepts'[k]) /\ concepts[k].version =< concepts'[k].version

(* One request moves on to r.                                              *)
RequestStep(c, r) ==
    /\ client' = [client EXCEPT ![c] = r]
    /\ RequestOK(r, concepts')

LEMMA Bounds ==
    /\ MaxVersions \in Nat \ {0} /\ MaxAttempts \in Nat /\ MaxBatches \in Nat
    /\ Len(Listings) \in Nat \ {0} /\ DOMAIN Listings = 1..Len(Listings)
    /\ \A l \in 1..Len(Listings) : Listings[l] \in Listing
BY CriteriaAssumption

LEMMA NoRequestOK ==
    ASSUME NEW rows
    PROVE  RequestOK(NoRequest, rows)
BY DEF RequestOK, NoRequest

LEMMA RequestStays ==
    ASSUME RegistryOK, RegistryOK', RegistryGrows, NEW r, RequestOK(r, concepts)
    PROVE  RequestOK(r, concepts')
<1>1. ASSUME r.at = "concept", r.read > 0
      PROVE  Given(concepts'[r.draft.key]) /\ r.read =< concepts'[r.draft.key].version
  <2>1. r.draft.key \in Keys
    BY <1>1, CriteriaAssumption DEF RequestOK
  <2>2. /\ Given(concepts[r.draft.key]) /\ r.read =< concepts[r.draft.key].version
        /\ r.read \in Nat
    BY <1>1 DEF RequestOK
  <2>3. /\ concepts[r.draft.key].version \in Nat
        /\ Given(concepts'[r.draft.key])
        /\ concepts'[r.draft.key].version \in Nat
        /\ concepts[r.draft.key].version =< concepts'[r.draft.key].version
    BY <2>1, <2>2, CriteriaAssumption DEF RegistryOK, RegistryGrows
  <2> QED
    BY <2>2, <2>3
<1> QED
  BY <1>1 DEF RequestOK

LEMMA RequestsKeep ==
    ASSUME PreferenceInv, RegistryOK', RegistryGrows, NEW c \in Clients, NEW r,
           RequestStep(c, r)
    PROVE  (DOMAIN client = Clients /\ \A p \in Clients : RequestOK(client[p], concepts))'
<1>1. DOMAIN client' = Clients
  BY DEF RequestStep, PreferenceInv
<1>2. ASSUME NEW p \in Clients PROVE RequestOK(client'[p], concepts')
  <2>1. CASE p = c
    BY <2>1 DEF RequestStep, PreferenceInv
  <2>2. CASE p # c
    <3>1. client'[p] = client[p]
      BY <2>2 DEF RequestStep, PreferenceInv
    <3>2. RequestOK(client[p], concepts)
      BY DEF PreferenceInv
    <3>3. RequestOK(client[p], concepts')
      BY <3>2, RequestStays DEF PreferenceInv
    <3> QED
      BY <3>1, <3>3
  <2> QED
    BY <2>1, <2>2
<1> QED
  BY <1>1, <1>2

(* A step that leaves registry and facts alone.                            *)
LEMMA QuietRequest ==
    ASSUME PreferenceInv, UNCHANGED <<concepts, versions, facts>>, NEW c \in Clients, NEW r,
           RequestStep(c, r)
    PROVE  PreferenceInv'
<1>1. RegistryOK'
  BY DEF PreferenceInv, RegistryOK
<1>2. RegistryGrows
  BY CriteriaAssumption DEF PreferenceInv, RegistryOK, RegistryGrows
<1>3. (DOMAIN client = Clients /\ \A p \in Clients : RequestOK(client[p], concepts))'
  BY <1>1, <1>2, RequestsKeep
<1>4. OnePreference' /\ (\A f \in facts : FactOK(f))'
  BY DEF PreferenceInv, OnePreference, ActiveFacts
<1> QED
  BY <1>1, <1>3, <1>4 DEF PreferenceInv

(* The requests, one after the other                                       *)
LEMMA NewRequest ==
    ASSUME NEW at, NEW d, NEW n
    PROVE  [NoRequest EXCEPT !.at = at, !.draft = d, !.read = n]
             = [at |-> at, draft |-> d, read |-> n, seen |-> {}, criteria |-> <<>>]
<1> DEFINE r == [NoRequest EXCEPT !.at = at, !.draft = d, !.read = n]
<1>1. r \in [at : {at}, draft : {d}, read : {n}, seen : {{}}, criteria : {<<>>}]
  BY DEF NoRequest
<1> HIDE DEF r
<1>2. r = [at |-> at, draft |-> d, read |-> n, seen |-> {}, criteria |-> <<>>]
  BY <1>1
<1> QED
  BY <1>2 DEF r

LEMMA NewFactRequest ==
    ASSUME NEW d, NEW seen
    PROVE  [NoRequest EXCEPT !.at = "fact", !.draft = d, !.seen = seen]
             = [at |-> "fact", draft |-> d, read |-> 0, seen |-> seen, criteria |-> <<>>]
<1> DEFINE r == [NoRequest EXCEPT !.at = "fact", !.draft = d, !.seen = seen]
<1>1. r \in [at : {"fact"}, draft : {d}, read : {0}, seen : {seen}, criteria : {<<>>}]
  BY DEF NoRequest
<1> HIDE DEF r
<1>2. r = [at |-> "fact", draft |-> d, read |-> 0, seen |-> seen, criteria |-> <<>>]
  BY <1>1
<1> QED
  BY <1>2 DEF r

LEMMA NewCompileRequest ==
    ASSUME NEW d, NEW criteria
    PROVE  [NoRequest EXCEPT !.at = "compiled", !.draft = d, !.criteria = criteria]
             = [at |-> "compiled", draft |-> d, read |-> 0, seen |-> {}, criteria |-> criteria]
<1> DEFINE r == [NoRequest EXCEPT !.at = "compiled", !.draft = d, !.criteria = criteria]
<1>1. r \in [at : {"compiled"}, draft : {d}, read : {0}, seen : {{}}, criteria : {criteria}]
  BY DEF NoRequest
<1> HIDE DEF r
<1>2. r = [at |-> "compiled", draft |-> d, read |-> 0, seen |-> {}, criteria |-> criteria]
  BY <1>1
<1> QED
  BY <1>2 DEF r

LEMMA NumberedRequest ==
    ASSUME NEW r, NEW n,
           r = [at |-> r.at, draft |-> r.draft, read |-> r.read, seen |-> r.seen,
                criteria |-> r.criteria]
    PROVE  [r EXCEPT !.at = "insert", !.read = n]
             = [at |-> "insert", draft |-> r.draft, read |-> n, seen |-> r.seen,
                criteria |-> r.criteria]
<1> DEFINE q == [r EXCEPT !.at = "insert", !.read = n]
<1>1. q \in [at : {"insert"}, draft : {r.draft}, read : {n}, seen : {r.seen},
             criteria : {r.criteria}]
  OBVIOUS
<1> HIDE DEF q
<1>2. q = [at |-> "insert", draft |-> r.draft, read |-> n, seen |-> r.seen,
           criteria |-> r.criteria]
  BY <1>1
<1> QED
  BY <1>2 DEF q

LEMMA DoneKeeps ==
    ASSUME PreferenceInv, NEW c \in Clients, Done(c), UNCHANGED <<concepts, versions, facts>>
    PROVE  PreferenceInv'
<1>1. RequestStep(c, NoRequest)
  BY NoRequestOK DEF Done, Proceed, RequestStep
<1> QED
  BY <1>1, QuietRequest

LEMMA RegisterConceptKeeps ==
    ASSUME PreferenceInv, NEW c \in Clients, NEW d \in ConceptDrafts, RegisterConcept(c, d)
    PROVE  PreferenceInv'
<1> DEFINE n == IF Given(concepts[d.key]) THEN concepts[d.key].version ELSE 0
           r == [NoRequest EXCEPT !.at = "concept", !.draft = d, !.read = n]
<1>1. d.key \in Keys
  BY CriteriaAssumption
<1>2. /\ n \in Nat
      /\ n > 0 => Given(concepts[d.key]) /\ n =< concepts[d.key].version
  BY <1>1, CriteriaAssumption DEF PreferenceInv, RegistryOK
<1>3. /\ client' = [client EXCEPT ![c] = r]
      /\ UNCHANGED <<concepts, versions, facts>>
  BY DEF RegisterConcept, Proceed, registry, preferences
<1> HIDE DEF n
<1>4. r = [at |-> "concept", draft |-> d, read |-> n, seen |-> {}, criteria |-> <<>>]
  BY NewRequest
<1>5. RequestOK(r, concepts)
  BY <1>2, <1>4 DEF RequestOK
<1> HIDE DEF r
<1>6. RequestStep(c, r)
  BY <1>3, <1>5 DEF RequestStep
<1> QED
  BY <1>3, <1>6, QuietRequest

LEMMA SaveConceptKeeps ==
    ASSUME PreferenceInv, NEW c \in Clients, SaveConcept(c)
    PROVE  PreferenceInv'
<1> DEFINE d == client[c].draft
           old == concepts[d.key]
           r == [client[c] EXCEPT !.at = "version"]
<1>0. /\ client[c].at = "concept" /\ RequestOK(client[c], concepts)
      /\ UNCHANGED <<versions, facts>> /\ client' = [client EXCEPT ![c] = r]
  BY DEF SaveConcept, Proceed, PreferenceInv, preferences
<1>1. d \in ConceptDrafts /\ d.key \in Keys
  BY <1>0, CriteriaAssumption DEF RequestOK
<1>2. PICK n \in 1..MaxVersions :
        /\ concepts' = [concepts EXCEPT ![d.key] = ConceptRow(d, n)]
        /\ Given(old) => old.version =< n
        /\ client[c].read \in 0..(MaxVersions - 1)
  <2>1. CASE client[c].read = 0 /\ old = None /\
             concepts' = [concepts EXCEPT ![d.key] = ConceptRow(d, 1)]
    <3>1. 1 \in 1..MaxVersions /\ 0 \in 0..(MaxVersions - 1)
      BY Bounds
    <3> QED
      BY <2>1, <3>1 DEF Given
  <2>2. CASE client[c].read > 0 /\ old.version < MaxVersions /\
             concepts' = [concepts EXCEPT ![d.key] = ConceptRow(d, old.version + 1)]
    <3>1. /\ Given(old) /\ client[c].read =< old.version /\ client[c].read \in Nat
      BY <1>0, <2>2 DEF RequestOK
    <3>2. old.version \in 1..MaxVersions
      BY <1>1, <3>1 DEF PreferenceInv, RegistryOK
    <3> HIDE DEF old
    <3>3. old.version + 1 \in 1..MaxVersions
      BY <2>2, <3>2, Bounds
    <3>4. client[c].read \in 0..(MaxVersions - 1)
      BY <2>2, <3>1, <3>2, Bounds
    <3>5. old.version =< old.version + 1
      BY <3>2, Bounds
    <3> QED
      BY <2>2, <3>3, <3>4, <3>5
  <2> QED
    BY <2>1, <2>2 DEF SaveConcept
<1>3. Given(ConceptRow(d, n)) /\ ConceptRow(d, n).version = n
  BY <1>1, CriteriaAssumption DEF ConceptRow
<1> HIDE DEF d, old
<1>4. /\ DOMAIN concepts' = Keys
      /\ concepts'[d.key] = ConceptRow(d, n)
      /\ \A k \in Keys : k # d.key => concepts'[k] = concepts[k]
  BY <1>1, <1>2 DEF PreferenceInv, RegistryOK
<1>5. RegistryOK'
  BY <1>0, <1>3, <1>4 DEF PreferenceInv, RegistryOK
<1>6. RegistryGrows
  <2> SUFFICES ASSUME NEW k \in Keys, Given(concepts[k])
               PROVE  Given(concepts'[k]) /\ concepts[k].version =< concepts'[k].version
    BY DEF RegistryGrows
  <2>1. CASE k = d.key
    BY <1>2, <1>3, <1>4, <2>1 DEF old
  <2>2. CASE k # d.key
    BY <1>4, <2>2, CriteriaAssumption DEF PreferenceInv, RegistryOK
  <2> QED
    BY <2>1, <2>2
<1>7. r = [at |-> "version", draft |-> client[c].draft, read |-> client[c].read,
           seen |-> client[c].seen, criteria |-> client[c].criteria]
  BY <1>0 DEF RequestOK
<1>8. RequestOK(r, concepts')
  BY <1>0, <1>2, <1>7 DEF RequestOK
<1> HIDE DEF r
<1>9. (DOMAIN client = Clients /\ \A p \in Clients : RequestOK(client[p], concepts))'
  BY <1>0, <1>5, <1>6, <1>8, RequestsKeep DEF RequestStep
<1>10. OnePreference' /\ (\A f \in facts : FactOK(f))'
  BY <1>0 DEF PreferenceInv, OnePreference, ActiveFacts
<1> QED
  BY <1>5, <1>9, <1>10 DEF PreferenceInv

LEMMA InsertVersionKeeps ==
    ASSUME PreferenceInv, NEW c \in Clients, InsertVersion(c)
    PROVE  PreferenceInv'
<1> DEFINE r == [client[c] EXCEPT !.at = "invalidate"]
           new == <<client[c].draft.key, client[c].read + 1>>
<1>0. /\ client[c].at = "version" /\ RequestOK(client[c], concepts)
      /\ UNCHANGED <<concepts, facts>> /\ versions' = versions \cup {new}
      /\ client' = [client EXCEPT ![c] = r]
  BY DEF InsertVersion, Proceed, PreferenceInv, preferences
<1>1. client[c].draft \in ConceptDrafts /\ client[c].read \in 0..(MaxVersions - 1)
  BY <1>0 DEF RequestOK
<1>2. client[c].draft.key \in Keys /\ client[c].read + 1 \in 1..MaxVersions
  BY <1>1, CriteriaAssumption
<1>3. RegistryOK'
  BY <1>0, <1>2 DEF PreferenceInv, RegistryOK
<1>4. RegistryGrows
  BY <1>0, CriteriaAssumption DEF PreferenceInv, RegistryOK, RegistryGrows
<1>5. r = [at |-> "invalidate", draft |-> client[c].draft, read |-> client[c].read,
           seen |-> client[c].seen, criteria |-> client[c].criteria]
  BY <1>0 DEF RequestOK
<1>6. RequestOK(r, concepts')
  BY <1>1, <1>5 DEF RequestOK
<1> HIDE DEF r
<1>7. (DOMAIN client = Clients /\ \A p \in Clients : RequestOK(client[p], concepts))'
  BY <1>0, <1>3, <1>4, <1>6, RequestsKeep DEF RequestStep
<1>8. OnePreference' /\ (\A f \in facts : FactOK(f))'
  BY <1>0 DEF PreferenceInv, OnePreference, ActiveFacts
<1> QED
  BY <1>3, <1>7, <1>8 DEF PreferenceInv

LEMMA RecordPreferenceFactKeeps ==
    ASSUME PreferenceInv, NEW c \in Clients, NEW d \in FactDrafts, RecordPreferenceFact(c, d)
    PROVE  PreferenceInv'
<1> DEFINE seen == ActiveFacts(d.concept_key)
           r == [NoRequest EXCEPT !.at = "fact", !.draft = d, !.seen = seen]
<1>1. /\ client' = [client EXCEPT ![c] = r]
      /\ UNCHANGED <<concepts, versions, facts>>
  BY DEF RecordPreferenceFact, Proceed, registry, preferences
<1>2. \A f \in seen : f.concept_key = d.concept_key
  BY DEF ActiveFacts
<1> HIDE DEF seen
<1>3. r = [at |-> "fact", draft |-> d, read |-> 0, seen |-> seen, criteria |-> <<>>]
  BY NewFactRequest
<1>4. RequestOK(r, concepts')
  BY <1>2, <1>3 DEF RequestOK
<1> HIDE DEF r
<1> QED
  BY <1>1, <1>4, QuietRequest DEF RequestStep

LEMMA CompileProfileKeeps ==
    ASSUME PreferenceInv, NEW c \in Clients, NEW d \in EditDrafts, CompileProfile(c, d)
    PROVE  PreferenceInv'
<1> DEFINE criteria == CompileCriteria(ConceptMap, Active(facts), d.edits)
           r == [NoRequest EXCEPT !.at = "compiled", !.draft = d, !.criteria = criteria]
<1>1. /\ client' = [client EXCEPT ![c] = r]
      /\ UNCHANGED <<concepts, versions, facts>>
  BY DEF CompileProfile, Proceed, registry, preferences
<1> HIDE DEF criteria
<1>2. r = [at |-> "compiled", draft |-> d, read |-> 0, seen |-> {}, criteria |-> criteria]
  BY NewCompileRequest
<1>3. RequestOK(r, concepts')
  BY <1>2 DEF RequestOK
<1> HIDE DEF r
<1> QED
  BY <1>1, <1>3, QuietRequest DEF RequestStep

LEMMA NumberCompilationKeeps ==
    ASSUME PreferenceInv, NEW c \in Clients, NumberCompilation(c)
    PROVE  PreferenceInv'
<1> DEFINE n == Len(compilations)
           r == [client[c] EXCEPT !.at = "insert", !.read = n]
<1>1. /\ client' = [client EXCEPT ![c] = r] /\ RequestOK(client[c], concepts)
      /\ UNCHANGED <<concepts, versions, facts>>
  BY DEF NumberCompilation, Proceed, registry, preferences, PreferenceInv
<1> HIDE DEF n
<1>2. r = [at |-> "insert", draft |-> client[c].draft, read |-> n, seen |-> client[c].seen,
           criteria |-> client[c].criteria]
  BY <1>1, NumberedRequest DEF RequestOK
<1>3. RequestOK(r, concepts')
  BY <1>2 DEF RequestOK
<1> HIDE DEF r
<1> QED
  BY <1>1, <1>3, QuietRequest DEF RequestStep

(* The unique index: when the insert is accepted, the update has seen every *)
(* active fact of the concept, and no fact of another one.                 *)
LEMMA CommitFactKeeps ==
    ASSUME PreferenceInv, NEW c \in Clients, CommitFact(c)
    PROVE  PreferenceInv'
<1> DEFINE d == client[c].draft
           new == [id |-> Cardinality(facts) + 1, concept_key |-> d.concept_key,
                   weight |-> d.weight, state |-> "active"]
           Over(f) == IF f \in client[c].seen THEN [f EXCEPT !.state = "superseded"] ELSE f
<1>1. /\ client[c].at = "fact" /\ RequestOK(client[c], concepts)
      /\ ActiveFacts(d.concept_key) \subseteq client[c].seen
      /\ facts' = {Over(f) : f \in facts} \cup {new}
      /\ UNCHANGED <<concepts, versions>> /\ Done(c)
  BY DEF CommitFact, FactAccepted, PreferenceInv, registry
<1>2. \A f \in client[c].seen : f.concept_key = d.concept_key
  BY <1>1 DEF RequestOK
<1>3. /\ FactOK(new) /\ new.concept_key = d.concept_key /\ new.state = "active"
  BY DEF FactOK
<1>4. ASSUME NEW f \in facts
      PROVE  /\ FactOK(Over(f)) /\ Over(f).concept_key = f.concept_key
             /\ f \in client[c].seen => Over(f).state = "superseded"
             /\ f \notin client[c].seen => Over(f) = f
  <2>1. FactOK(f)
    BY DEF PreferenceInv
  <2>2. CASE f \in client[c].seen
    <3>1. Over(f) = [id |-> f.id, concept_key |-> f.concept_key, weight |-> f.weight,
                     state |-> "superseded"]
      BY <2>1, <2>2 DEF FactOK
    <3> QED
      BY <2>2, <3>1 DEF FactOK
  <2>3. CASE f \notin client[c].seen
    BY <2>1, <2>3
  <2> QED
    BY <2>2, <2>3
<1> HIDE DEF new, Over
<1>5. \A f \in facts' : FactOK(f)
  BY <1>1, <1>3, <1>4
<1>6. ASSUME NEW k, k = d.concept_key
      PROVE  \E x : ActiveFacts(k)' = {x}
  <2>1. ASSUME NEW f \in facts, f.concept_key = k, f.state = "active"
        PROVE  f \in client[c].seen
    BY <1>1, <1>6, <2>1 DEF ActiveFacts, Active
  <2>2. ASSUME NEW g \in facts', g.concept_key = k, g.state = "active"
        PROVE  g = new
    <3> SUFFICES ASSUME g # new PROVE FALSE
      OBVIOUS
    <3>1. PICK f \in facts : g = Over(f)
      BY <1>1
    <3>2. f \notin client[c].seen
      BY <1>4, <2>2, <3>1
    <3> QED
      BY <1>4, <2>1, <2>2, <3>1, <3>2
  <2>3. new \in facts' /\ new.concept_key = k /\ new.state = "active"
    BY <1>1, <1>3, <1>6
  <2>4. ActiveFacts(k)' = {new}
    BY <2>2, <2>3 DEF ActiveFacts, Active
  <2> QED
    BY <2>4
<1>7. ASSUME NEW k, k # d.concept_key
      PROVE  ActiveFacts(k)' = ActiveFacts(k)
  <2>1. ASSUME NEW f \in facts, f.concept_key = k PROVE Over(f) = f
    BY <1>2, <1>4, <1>7, <2>1
  <2>2. ActiveFacts(k)' \subseteq ActiveFacts(k)
    BY <1>1, <1>3, <1>4, <1>7, <2>1 DEF ActiveFacts, Active
  <2>3. ActiveFacts(k) \subseteq ActiveFacts(k)'
    BY <1>1, <2>1 DEF ActiveFacts, Active
  <2> QED
    BY <2>2, <2>3
<1>8. ASSUME NEW f \in facts' PROVE Cardinality(ActiveFacts(f.concept_key)') = 1
  <2>1. CASE f.concept_key = d.concept_key
    BY <1>6, <2>1, FS_Singleton
  <2>2. CASE f.concept_key # d.concept_key
    <3>1. PICK g \in facts : f = Over(g)
      BY <1>1, <1>3, <2>2
    <3>2. f.concept_key = g.concept_key
      BY <1>4, <3>1
    <3>3. Cardinality(ActiveFacts(g.concept_key)) = 1
      BY DEF PreferenceInv, OnePreference
    <3> QED
      BY <1>7, <2>2, <3>2, <3>3
  <2> QED
    BY <2>1, <2>2
<1>9. OnePreference'
  BY <1>8 DEF OnePreference, ActiveFacts
<1>10. RegistryOK' /\ RegistryGrows
  BY <1>1, CriteriaAssumption DEF PreferenceInv, RegistryOK, RegistryGrows
<1>11. RequestStep(c, NoRequest)
  BY <1>1, NoRequestOK DEF Done, Proceed, RequestStep
<1>12. (DOMAIN client = Clients /\ \A p \in Clients : RequestOK(client[p], concepts))'
  BY <1>10, <1>11, RequestsKeep
<1> QED
  BY <1>5, <1>9, <1>10, <1>12 DEF PreferenceInv

-----------------------------------------------------------------------------
(* The inductive invariant: observations, attempts and runs                *)

(* An observation in a store of s listings and b batches.                  *)
RowOK(o, s, b) ==
    /\ o = [listing |-> o.listing, concept_key |-> o.concept_key, batch |-> o.batch,
            artifact |-> o.artifact, value |-> o.value, score |-> o.score,
            confidence |-> o.confidence, fragment |-> o.fragment, state |-> o.state]
    /\ o.listing \in 1..s /\ o.concept_key \in Keys /\ o.batch \in 1..b
    /\ o.artifact \in 1..2
    /\ o.state \in {"active", "invalidated", "superseded", "failed"}
    /\ o.state = "active" => Grounded(o.concept_key, Listings[o.listing], o)

(* What an attempt supersedes is within what it extracts.                  *)
InScope(id, scope) ==
    /\ id[2] \in Targets(scope)
    /\ scope.kind = "parser" => Listings[id[1]].normalizer = scope.key

Extracting == {"find", "artifact", "previous", "extract"}

(* What an attempt relies on at each of its steps, with s listings in      *)
(* Silver.  A recompute has read what it supersedes before the listings,   *)
(* an extraction reads it when it has them.                                *)
AttemptOK(a, s) ==
    /\ a \in Attempt
    /\ a.at # "idle" => a.job \in Work /\ a.try \in 1..MaxAttempts
    /\ a.at \in Extracting => a.todo # {}
    /\ a.at \in Extracting \cup {"publish"} => a.listings \in 1..s
    /\ a.at = "ids" /\ a.job.kind # "recompute" => a.listings \in 1..s
    /\ a.at = "listings" /\ a.job.kind = "recompute" =>
          \A id \in a.supersede : id[1] \in 1..s /\ InScope(id, a.job.scope)
    /\ a.at \in Extracting \cup {"publish"} /\ a.job.kind = "recompute" =>
          \A id \in a.supersede : id[1] \in 1..a.listings /\ InScope(id, a.job.scope)
    /\ a.at = "report" => a.outcome \in {"succeeded", "permanent"}

(* What success means for the rows, and for the run of a recompute.        *)
Observes(rows, j) ==
    j.scope.kind # "parser" =>
        \A k \in Targets(j.scope) : \E o \in rows : o.listing = 1 /\ o.concept_key = k

OutcomeOK(a, rows, runs) ==
    a.at = "report" /\ a.outcome = "succeeded" =>
        /\ Observes(rows, a.job)
        /\ a.job.kind = "recompute" => runs[<<a.job, a.try>>] = "succeeded"

(* A run belongs to one attempt, of a try that was started, and it is not  *)
(* succeeded before the attempt has published.                             *)
RunsOK ==
    /\ recomputes \in [Work \X (1..MaxAttempts) -> {"none", "pending", "succeeded", "failed"}]
    /\ \A w \in Workers : attempt[w].at # "idle" => attempt[w].try =< tries[attempt[w].job]
    /\ \A v, w \in Workers :
          attempt[v].at # "idle" /\ attempt[w].at # "idle" /\ RunId(v) = RunId(w) => v = w
    /\ \A r \in Work \X (1..MaxAttempts) : r[2] > tries[r[1]] => recomputes[r] # "succeeded"
    /\ \A w \in Workers :
          attempt[w].at \notin {"idle", "report"} => recomputes[RunId(w)] # "succeeded"

StoreOK ==
    /\ artifacts \in [Keys -> Seq(1..2)]
    /\ silver \in 1..Len(Listings) /\ batches \in 0..MaxBatches

WorkInv ==
    /\ StoreOK
    /\ \A o \in observations : RowOK(o, silver, batches)
    /\ attempt \in [Workers -> Attempt]
    /\ \A w \in Workers : AttemptOK(attempt[w], silver)
    /\ Jobs!JobTypeOK
    /\ RunsOK
    /\ \A w \in Workers : OutcomeOK(attempt[w], observations, recomputes)
    /\ SucceededWorkIsComplete

IInv == PreferenceInv /\ WorkInv

(* What one step may do to each of them.                                   *)
Succeeded(j, rows, runs) ==
    /\ Observes(rows, j)
    /\ j.kind = "recompute" => \E t \in 1..MaxAttempts : runs[<<j, t>>] = "succeeded"

RowsStep ==
    /\ StoreOK' /\ silver =< silver'
    /\ \A o \in observations' : RowOK(o, silver', batches')
    /\ \A o \in observations :
          \E p \in observations' : p.listing = o.listing /\ p.concept_key = o.concept_key

RunsStep ==
    /\ RunsOK'
    /\ \A r \in Work \X (1..MaxAttempts) :
          recomputes[r] = "succeeded" => recomputes'[r] = "succeeded"

AttemptStep ==
    /\ attempt' \in [Workers -> Attempt]
    /\ \A w \in Workers :
          \/ attempt'[w] = attempt[w]
          \/ /\ AttemptOK(attempt'[w], silver')
             /\ OutcomeOK(attempt'[w], observations', recomputes')

JobStep ==
    /\ Jobs!JobTypeOK'
    /\ \A j \in Work : phase'[j] = "succeeded" =>
          phase[j] = "succeeded" \/ Succeeded(j, observations', recomputes')

LEMMA AttemptStays ==
    ASSUME NEW a, NEW s \in Nat, NEW t \in Nat, s =< t, AttemptOK(a, s)
    PROVE  AttemptOK(a, t)
<1>1. \A n : n \in 1..s => n \in 1..t
  OBVIOUS
<1> QED
  BY <1>1 DEF AttemptOK

LEMMA ObservesStays ==
    ASSUME RowsStep, NEW j, Observes(observations, j)
    PROVE  Observes(observations', j)
<1> SUFFICES ASSUME j.scope.kind # "parser", NEW k \in Targets(j.scope)
             PROVE  \E o \in observations' : o.listing = 1 /\ o.concept_key = k
  BY DEF Observes
<1>1. PICK o \in observations : o.listing = 1 /\ o.concept_key = k
  BY DEF Observes
<1>2. PICK p \in observations' : p.listing = o.listing /\ p.concept_key = o.concept_key
  BY DEF RowsStep
<1> QED
  BY <1>1, <1>2

LEMMA OutcomeStays ==
    ASSUME RowsStep, RunsStep, NEW a, NEW s, AttemptOK(a, s),
           OutcomeOK(a, observations, recomputes)
    PROVE  OutcomeOK(a, observations', recomputes')
<1> SUFFICES ASSUME a.at = "report", a.outcome = "succeeded"
             PROVE  /\ Observes(observations', a.job)
                    /\ a.job.kind = "recompute" => recomputes'[<<a.job, a.try>>] = "succeeded"
  BY DEF OutcomeOK
<1>1. Observes(observations', a.job)
  BY ObservesStays DEF OutcomeOK
<1>2. <<a.job, a.try>> \in Work \X (1..MaxAttempts)
  BY DEF AttemptOK
<1> QED
  BY <1>1, <1>2 DEF OutcomeOK, RunsStep

LEMMA CompleteStays ==
    ASSUME SucceededWorkIsComplete, RowsStep, RunsStep, JobStep
    PROVE  SucceededWorkIsComplete'
<1>1. ASSUME NEW j \in Work, phase'[j] = "succeeded"
      PROVE  Succeeded(j, observations', recomputes')
  <2>1. CASE phase[j] = "succeeded"
    <3>1. /\ Observes(observations, j)
          /\ j.kind = "recompute" => \E t \in 1..MaxAttempts : recomputes[<<j, t>>] = "succeeded"
      BY <2>1 DEF SucceededWorkIsComplete, Observes
    <3>2. \A t \in 1..MaxAttempts : <<j, t>> \in Work \X (1..MaxAttempts)
      OBVIOUS
    <3>3. Observes(observations', j)
      BY <3>1, ObservesStays
    <3> QED
      BY <3>1, <3>2, <3>3 DEF Succeeded, RunsStep
  <2> QED
    BY <1>1, <2>1 DEF JobStep
<1> QED
  BY <1>1 DEF SucceededWorkIsComplete, Succeeded, Observes

LEMMA StepKeeps ==
    ASSUME WorkInv, RowsStep, RunsStep, AttemptStep, JobStep
    PROVE  WorkInv'
<1>1. silver \in Nat /\ silver' \in Nat /\ silver =< silver'
  BY Bounds DEF WorkInv, StoreOK, RowsStep
<1>2. ASSUME NEW w \in Workers
      PROVE  /\ AttemptOK(attempt'[w], silver')
             /\ OutcomeOK(attempt'[w], observations', recomputes')
  <2>1. CASE attempt'[w] = attempt[w]
    <3>1. AttemptOK(attempt[w], silver) /\ OutcomeOK(attempt[w], observations, recomputes)
      BY DEF WorkInv
    <3>2. AttemptOK(attempt[w], silver')
      BY <1>1, <3>1, AttemptStays
    <3>3. OutcomeOK(attempt[w], observations', recomputes')
      BY <3>1, OutcomeStays
    <3> QED
      BY <2>1, <3>2, <3>3
  <2> QED
    BY <2>1 DEF AttemptStep
<1>3. SucceededWorkIsComplete'
  BY CompleteStays DEF WorkInv
<1> QED
  BY <1>2, <1>3 DEF WorkInv, RowsStep, RunsStep, AttemptStep, JobStep

-----------------------------------------------------------------------------
(* Observations                                                            *)

LEMMA RowStays ==
    ASSUME NEW o, NEW s \in Nat, NEW t \in Nat, NEW b \in Nat, NEW c \in Nat, s =< t, b =< c,
           RowOK(o, s, b)
    PROVE  RowOK(o, t, c)
<1>1. (\A n : n \in 1..s => n \in 1..t) /\ (\A n : n \in 1..b => n \in 1..c)
  OBVIOUS
<1> QED
  BY <1>1 DEF RowOK

(* A row that is taken out of use keeps what it observed.                  *)
LEMMA RowEnds ==
    ASSUME NEW o, NEW s, NEW b, RowOK(o, s, b), NEW state \in {"invalidated", "superseded"}
    PROVE  /\ RowOK([o EXCEPT !.state = state], s, b)
           /\ [o EXCEPT !.state = state].listing = o.listing
           /\ [o EXCEPT !.state = state].concept_key = o.concept_key
           /\ [o EXCEPT !.state = state].batch = o.batch
           /\ [o EXCEPT !.state = state].state = state
<1> DEFINE p == [o EXCEPT !.state = state]
<1>1. p = [listing |-> o.listing, concept_key |-> o.concept_key, batch |-> o.batch,
           artifact |-> o.artifact, value |-> o.value, score |-> o.score,
           confidence |-> o.confidence, fragment |-> o.fragment, state |-> state]
  BY DEF RowOK
<1> HIDE DEF p
<1>2. RowOK(p, s, b)
  BY <1>1 DEF RowOK
<1>3. p.listing = o.listing /\ p.concept_key = o.concept_key /\ p.batch = o.batch /\ p.state = state
  BY <1>1
<1> QED
  BY <1>2, <1>3 DEF p

LEMMA QuietRows ==
    ASSUME WorkInv, StoreOK', silver =< silver', UNCHANGED <<observations, batches>>
    PROVE  RowsStep
<1>1. /\ silver \in Nat /\ silver' \in Nat /\ batches \in Nat /\ batches' \in Nat
      /\ batches =< batches'
  BY Bounds DEF WorkInv, StoreOK
<1>2. ASSUME NEW o \in observations PROVE RowOK(o, silver', batches')
  BY <1>1, RowStays DEF WorkInv
<1> QED
  BY <1>2 DEF RowsStep

LEMMA InvalidatedRows ==
    ASSUME WorkInv, NEW selected, observations' = Invalidated(selected),
           UNCHANGED <<artifacts, silver, batches>>
    PROVE  RowsStep
<1> DEFINE Out(o) == IF o \in selected /\ o.state = "active"
                     THEN [o EXCEPT !.state = "invalidated"] ELSE o
<1>1. observations' = {Out(o) : o \in observations}
  BY DEF Invalidated
<1>2. ASSUME NEW o \in observations
      PROVE  /\ RowOK(Out(o), silver, batches)
             /\ Out(o).listing = o.listing /\ Out(o).concept_key = o.concept_key
  <2>1. RowOK(o, silver, batches)
    BY DEF WorkInv
  <2>2. CASE o \in selected /\ o.state = "active"
    BY <2>1, <2>2, RowEnds
  <2>3. CASE ~(o \in selected /\ o.state = "active")
    BY <2>1, <2>3
  <2> QED
    BY <2>2, <2>3
<1> HIDE DEF Out
<1>3. StoreOK' /\ silver =< silver'
  BY Bounds DEF WorkInv, StoreOK
<1> QED
  BY <1>1, <1>2, <1>3 DEF RowsStep

-----------------------------------------------------------------------------
(* Jobs                                                                    *)

LEMMA QuietJobs ==
    ASSUME Jobs!JobTypeOK, UNCHANGED jobVars
    PROVE  JobStep
BY DEF jobVars, Jobs!JobTypeOK, JobStep

LEMMA SubmitMoves ==
    ASSUME Jobs!JobTypeOK, NEW j \in Work, Jobs!Submit(j)
    PROVE  JobStep /\ tries' = tries
BY Bounds DEF Jobs!Submit, Jobs!Job!Accept, Jobs!JobTypeOK, JobStep

LEMMA ClaimMoves ==
    ASSUME Jobs!JobTypeOK, NEW w \in Workers, NEW j \in Work, Jobs!Claim(w, j)
    PROVE  /\ JobStep
           /\ tries[j] + 1 \in 1..MaxAttempts
           /\ tries' = [tries EXCEPT ![j] = tries[j] + 1]
<1>1. tries[j] + 1 \in 1..MaxAttempts
  BY Bounds DEF Jobs!Claim, Jobs!Job!Start, Jobs!JobTypeOK
<1>2. tries' = [tries EXCEPT ![j] = tries[j] + 1]
  BY DEF Jobs!Claim, Jobs!Job!Start, Jobs!JobTypeOK
<1>3. tries' \in [Work -> 0..MaxAttempts]
  BY <1>1, <1>2, Bounds DEF Jobs!JobTypeOK
<1>4. JobStep
  BY <1>3 DEF Jobs!Claim, Jobs!Job!Start, Jobs!JobTypeOK, JobStep
<1> QED
  BY <1>1, <1>2, <1>4

LEMMA FailureMoves ==
    ASSUME Jobs!JobTypeOK, NEW w \in Workers, NEW j \in Work,
           Jobs!RecordOutcome(w, j, "permanent")
    PROVE  JobStep /\ tries' = tries
<1>1. CASE UNCHANGED jobVars
  BY <1>1, QuietJobs DEF jobVars
<1>2. CASE Jobs!EndedAs(j, "failed") /\ holder' = [holder EXCEPT ![j] = None]
  BY <1>2 DEF Jobs!EndedAs, Jobs!Job!Finish, Jobs!JobTypeOK, JobStep
<1> QED
  BY <1>1, <1>2 DEF Jobs!RecordOutcome, Jobs!jobVars, jobVars

LEMMA SuccessMoves ==
    ASSUME Jobs!JobTypeOK, NEW w \in Workers, NEW j \in Work,
           Succeeded(j, observations', recomputes'), Jobs!RecordOutcome(w, j, "succeeded")
    PROVE  JobStep /\ tries' = tries
<1>1. CASE UNCHANGED jobVars
  BY <1>1, QuietJobs DEF jobVars
<1>2. CASE Jobs!EndedAs(j, "succeeded") /\ holder' = [holder EXCEPT ![j] = None]
  BY <1>2 DEF Jobs!EndedAs, Jobs!Job!Finish, Jobs!JobTypeOK, JobStep
<1> QED
  BY <1>1, <1>2 DEF Jobs!RecordOutcome, Jobs!jobVars, jobVars

LEMMA LapseMoves ==
    ASSUME Jobs!JobTypeOK, NEW j \in Work, Jobs!Lapse(j)
    PROVE  JobStep /\ tries' = tries
BY DEF Jobs!Lapse, Jobs!Job!Interrupt, Jobs!JobTypeOK, JobStep

-----------------------------------------------------------------------------
(* Runs                                                                    *)

(* The attempt of w moves on to a or ends, and only its own run changes.   *)
RunsMove(w, a) ==
    /\ attempt' = [attempt EXCEPT ![w] = a]
    /\ tries' = tries
    /\ a.at # "idle" =>
          attempt[w].at # "idle" /\ a.job = attempt[w].job /\ a.try = attempt[w].try
    /\ a.at \notin {"idle", "report"} => attempt[w].at \notin {"idle", "report"}
    /\ recomputes' \in [Work \X (1..MaxAttempts) -> {"none", "pending", "succeeded", "failed"}]
    /\ \A r \in Work \X (1..MaxAttempts) : recomputes'[r] # recomputes[r] =>
          /\ attempt[w].at \notin {"idle", "report"} /\ r = RunId(w)
          /\ recomputes'[r] = "succeeded" => a.at = "report"

LEMMA RunIdIsARun ==
    ASSUME WorkInv, NEW w \in Workers, attempt[w].at # "idle"
    PROVE  RunId(w) \in Work \X (1..MaxAttempts)
BY DEF WorkInv, AttemptOK, RunId

LEMMA RunsMoveSteps ==
    ASSUME WorkInv, NEW w \in Workers, NEW a, RunsMove(w, a)
    PROVE  RunsStep
<1>0. RunsOK
  BY DEF WorkInv
<1>1. /\ attempt'[w] = a
      /\ \A v \in Workers : v # w => attempt'[v] = attempt[v]
  BY DEF RunsMove, WorkInv
<1>2. \A v \in Workers :
        attempt'[v].at # "idle" => attempt[v].at # "idle" /\ RunId(v)' = RunId(v)
  BY <1>1 DEF RunsMove, RunId
<1>3. ASSUME NEW v \in Workers, attempt'[v].at # "idle"
      PROVE  attempt'[v].try =< tries'[attempt'[v].job]
  <2>1. attempt[v].at # "idle" /\ attempt'[v].job = attempt[v].job /\ attempt'[v].try = attempt[v].try
    BY <1>1, <1>3 DEF RunsMove
  <2> QED
    BY <1>0, <2>1 DEF RunsOK, RunsMove
<1>4. ASSUME NEW u \in Workers, NEW v \in Workers, attempt'[u].at # "idle",
             attempt'[v].at # "idle", RunId(u)' = RunId(v)'
      PROVE  u = v
  BY <1>0, <1>2, <1>4 DEF RunsOK
<1>5. ASSUME NEW r \in Work \X (1..MaxAttempts), recomputes'[r] # recomputes[r]
      PROVE  /\ recomputes[r] # "succeeded" /\ ~(r[2] > tries[r[1]])
             /\ attempt[w].at \notin {"idle", "report"} /\ r = RunId(w)
             /\ recomputes'[r] = "succeeded" => a.at = "report"
  <2>1. /\ attempt[w].at \notin {"idle", "report"} /\ r = RunId(w)
        /\ recomputes'[r] = "succeeded" => a.at = "report"
    BY <1>5 DEF RunsMove
  <2>2. recomputes[r] # "succeeded" /\ attempt[w].try =< tries[attempt[w].job]
    BY <1>0, <2>1 DEF RunsOK
  <2>3. r[1] = attempt[w].job /\ r[2] = attempt[w].try
    BY <2>1 DEF RunId
  <2>4. attempt[w].try \in Nat /\ tries[attempt[w].job] \in Nat
    BY <2>1, Bounds DEF WorkInv, AttemptOK, Jobs!JobTypeOK
  <2> QED
    BY <2>1, <2>2, <2>3, <2>4
<1>6. ASSUME NEW r \in Work \X (1..MaxAttempts), r[2] > tries'[r[1]]
      PROVE  recomputes'[r] # "succeeded"
  <2>1. tries' = tries
    BY DEF RunsMove
  <2>2. recomputes'[r] = recomputes[r]
    BY <1>5, <1>6, <2>1
  <2> QED
    BY <1>0, <1>6, <2>1, <2>2 DEF RunsOK
<1>7. ASSUME NEW v \in Workers, attempt'[v].at \notin {"idle", "report"}
      PROVE  recomputes'[RunId(v)'] # "succeeded"
  <2>1. attempt[v].at \notin {"idle", "report"} /\ RunId(v)' = RunId(v)
    BY <1>1, <1>2, <1>7 DEF RunsMove
  <2>2. RunId(v) \in Work \X (1..MaxAttempts) /\ recomputes[RunId(v)] # "succeeded"
    BY <1>0, <2>1, RunIdIsARun DEF RunsOK
  <2>3. CASE recomputes'[RunId(v)] = recomputes[RunId(v)]
    BY <2>1, <2>2, <2>3
  <2>4. CASE recomputes'[RunId(v)] # recomputes[RunId(v)]
    <3>1. RunId(v) = RunId(w) /\ attempt[w].at # "idle"
      BY <1>5, <2>2, <2>4
    <3>2. v = w
      BY <1>0, <2>1, <3>1 DEF RunsOK
    <3> QED
      BY <1>1, <1>5, <1>7, <2>1, <2>2, <2>4, <3>2
  <2> QED
    BY <2>3, <2>4
<1>8. RunsOK'
  BY <1>3, <1>4, <1>6, <1>7 DEF RunsOK, RunsMove
<1> QED
  BY <1>5, <1>8 DEF RunsStep

LEMMA QuietRuns ==
    ASSUME WorkInv, UNCHANGED <<attempt, recomputes, tries>>
    PROVE  RunsStep /\ AttemptStep
<1>1. RunsOK'
  BY DEF WorkInv, RunsOK, RunId
<1> QED
  BY <1>1 DEF RunsStep, AttemptStep, WorkInv

-----------------------------------------------------------------------------
(* Attempts                                                                *)

(* How a step changes the record of an attempt.                            *)
Placed(a, at) == [a EXCEPT !.at = at]
WithIds(a, ids, at) == [a EXCEPT !.supersede = ids, !.at = at]
WithListings(a, n, todo) == [a EXCEPT !.at = "find", !.listings = n, !.todo = todo]
WithPrevious(a, at, previous) == [a EXCEPT !.at = at, !.previous = previous]
WithTodo(a, todo, at) == [a EXCEPT !.todo = todo, !.at = at]
WithOutcome(a, outcome) == [a EXCEPT !.at = "report", !.outcome = outcome]
Claimed(j, n, at) == [NoAttempt EXCEPT !.job = j, !.try = n, !.at = at]

LEMMA PlaceMoves ==
    ASSUME NEW a \in Attempt,
           NEW at \in {"ids", "listings", "extract", "previous"}
    PROVE  /\ Placed(a, at) \in Attempt /\ Placed(a, at).at = at
           /\ Placed(a, at).job = a.job /\ Placed(a, at).try = a.try
           /\ Placed(a, at).supersede = a.supersede /\ Placed(a, at).listings = a.listings
           /\ Placed(a, at).todo = a.todo
BY DEF Attempt, Placed

LEMMA IdsMove ==
    ASSUME NEW a \in Attempt, NEW at \in {"listings", "publish"},
           NEW ids \in SUBSET ((1..Len(Listings)) \X Keys \X (1..MaxBatches))
    PROVE  LET b == WithIds(a, ids, at) IN
           /\ b \in Attempt /\ b.at = at /\ b.job = a.job /\ b.try = a.try
           /\ b.supersede = ids /\ b.listings = a.listings
<1> DEFINE b == WithIds(a, ids, at)
<1>1. b \in Attempt
  BY DEF Attempt, WithIds
<1>2. b.at = at /\ b.job = a.job /\ b.try = a.try /\ b.supersede = ids
      /\ b.listings = a.listings
  BY DEF Attempt, WithIds
<1> QED
  BY <1>1, <1>2

LEMMA ListingsMove ==
    ASSUME NEW a \in Attempt, NEW n \in 0..Len(Listings), NEW todo \in SUBSET Keys
    PROVE  LET b == WithListings(a, n, todo) IN
           /\ b \in Attempt /\ b.at = "find" /\ b.job = a.job /\ b.try = a.try
           /\ b.supersede = a.supersede /\ b.listings = n /\ b.todo = todo
<1> DEFINE b == WithListings(a, n, todo)
<1>1. b \in Attempt
  BY DEF Attempt, WithListings
<1>2. b.at = "find" /\ b.job = a.job /\ b.try = a.try /\ b.supersede = a.supersede
      /\ b.listings = n /\ b.todo = todo
  BY DEF Attempt, WithListings
<1> QED
  BY <1>1, <1>2

LEMMA PreviousMoves ==
    ASSUME NEW a \in Attempt, NEW at \in {"artifact", "extract"},
           NEW previous \in {1, 2, None}
    PROVE  LET b == WithPrevious(a, at, previous) IN
           /\ b \in Attempt /\ b.at = at /\ b.job = a.job /\ b.try = a.try
           /\ b.supersede = a.supersede /\ b.listings = a.listings /\ b.todo = a.todo
<1> DEFINE b == WithPrevious(a, at, previous)
<1>1. b \in Attempt
  BY DEF Attempt, WithPrevious
<1>2. b.at = at /\ b.job = a.job /\ b.try = a.try /\ b.supersede = a.supersede
      /\ b.listings = a.listings /\ b.todo = a.todo
  BY DEF Attempt, WithPrevious
<1> QED
  BY <1>1, <1>2

LEMMA TodoMoves ==
    ASSUME NEW a \in Attempt, NEW at \in {"find", "publish", "ids"}, NEW todo \in SUBSET Keys
    PROVE  LET b == WithTodo(a, todo, at) IN
           /\ b \in Attempt /\ b.at = at /\ b.job = a.job /\ b.try = a.try
           /\ b.supersede = a.supersede /\ b.listings = a.listings /\ b.todo = todo
<1> DEFINE b == WithTodo(a, todo, at)
<1>1. b \in Attempt
  BY DEF Attempt, WithTodo
<1>2. b.at = at /\ b.job = a.job /\ b.try = a.try /\ b.supersede = a.supersede
      /\ b.listings = a.listings /\ b.todo = todo
  BY DEF Attempt, WithTodo
<1> QED
  BY <1>1, <1>2

LEMMA OutcomeMoves ==
    ASSUME NEW a \in Attempt, NEW outcome \in {"succeeded", "permanent"}
    PROVE  LET b == WithOutcome(a, outcome) IN
           /\ b \in Attempt /\ b.at = "report" /\ b.job = a.job /\ b.try = a.try
           /\ b.outcome = outcome
<1> DEFINE b == WithOutcome(a, outcome)
<1>1. b \in Attempt
  BY DEF Attempt, WithOutcome
<1>2. b.at = "report" /\ b.job = a.job /\ b.try = a.try /\ b.outcome = outcome
  BY DEF Attempt, WithOutcome
<1> QED
  BY <1>1, <1>2

LEMMA NoAttemptOK ==
    ASSUME NEW s
    PROVE  NoAttempt.at = "idle" /\ AttemptOK(NoAttempt, s)
<1>1. NoAttempt \in Attempt /\ NoAttempt.at = "idle"
  BY Bounds DEF NoAttempt, Attempt
<1> QED
  BY <1>1 DEF AttemptOK, Extracting

(* The scopes of jobs.                                                     *)
LEMMA Scopes ==
    ASSUME NEW j \in Work
    PROVE  /\ j.kind \in {"extract", "recompute"}
           /\ j.scope.kind \in {"concept", "extraction", "parser", "full"}
           /\ Targets(j.scope) \subseteq Keys /\ Targets(j.scope) # {}
<1>1. j.kind \in {"extract", "recompute"} /\ ScopeAssumption(j.scope) /\ Keys # {}
  BY CriteriaAssumption
<1> QED
  BY <1>1 DEF ScopeAssumption, Targets

(* An attempt moves on to a.                                               *)
LEMMA WorkerSteps ==
    ASSUME WorkInv, NEW w \in Workers, NEW a, RunsMove(w, a), AttemptOK(a, silver'),
           OutcomeOK(a, observations', recomputes')
    PROVE  RunsStep /\ AttemptStep
<1>1. RunsStep
  BY RunsMoveSteps
<1>2. a \in Attempt
  BY DEF AttemptOK
<1>3. /\ attempt' \in [Workers -> Attempt] /\ attempt'[w] = a
      /\ \A v \in Workers : v # w => attempt'[v] = attempt[v]
  BY <1>2 DEF RunsMove, WorkInv
<1>4. AttemptStep
  BY <1>3 DEF AttemptStep
<1> QED
  BY <1>1, <1>4

(* It moves on without touching the store, its run or a job.               *)
LEMMA LocalKeeps ==
    ASSUME WorkInv, NEW w \in Workers, NEW a, attempt' = [attempt EXCEPT ![w] = a],
           UNCHANGED <<extracted, silver, jobVars>>,
           attempt[w].at \notin {"idle", "report"}, a.at # "report",
           a.at # "idle" => a.job = attempt[w].job /\ a.try = attempt[w].try,
           AttemptOK(a, silver)
    PROVE  WorkInv'
<1>1. RunsMove(w, a)
  BY DEF RunsMove, extracted, jobVars, WorkInv, RunsOK
<1>2. AttemptOK(a, silver')
  OBVIOUS
<1>3. OutcomeOK(a, observations', recomputes')
  BY DEF OutcomeOK
<1>4. RunsStep /\ AttemptStep
  BY <1>1, <1>2, <1>3, WorkerSteps
<1>5. JobStep
  BY QuietJobs DEF WorkInv
<1>6. RowsStep
  <2>1. StoreOK' /\ silver =< silver'
    BY Bounds DEF extracted, WorkInv, StoreOK
  <2> QED
    BY <2>1, QuietRows DEF extracted
<1> QED
  BY <1>4, <1>5, <1>6, StepKeeps

-----------------------------------------------------------------------------
(* The steps of an attempt                                                 *)

LEMMA ClaimedAttempt ==
    ASSUME NEW j \in Work, NEW n \in 1..MaxAttempts, NEW at \in {"run", "listings"}
    PROVE  LET a == Claimed(j, n, at) IN
           /\ a \in Attempt /\ a.at = at /\ a.job = j /\ a.try = n /\ a.supersede = {}
<1> DEFINE a == Claimed(j, n, at)
<1>1. n \in 0..MaxAttempts /\ 0 \in 0..Len(Listings)
  BY Bounds
<1>2. a \in Attempt
  BY <1>1 DEF Attempt, NoAttempt, Claimed
<1>3. a.at = at /\ a.job = j /\ a.try = n /\ a.supersede = {}
  BY DEF NoAttempt, Claimed
<1> QED
  BY <1>2, <1>3

LEMMA ClaimKeeps ==
    ASSUME WorkInv, NEW w \in Workers, NEW j \in Work, ClaimWork(w, j)
    PROVE  WorkInv'
<1> DEFINE n == tries[j] + 1
           at == IF j.kind = "recompute" THEN "run" ELSE "listings"
           a == Claimed(j, n, at)
<1>0. /\ RunsOK /\ Jobs!JobTypeOK /\ attempt \in [Workers -> Attempt]
      /\ \A v \in Workers : AttemptOK(attempt[v], silver)
  BY DEF WorkInv
<1>1. /\ attempt[w].at = "idle" /\ attempt' = [attempt EXCEPT ![w] = a]
      /\ Jobs!Claim(w, j) /\ UNCHANGED <<extracted, silver>>
  BY DEF ClaimWork, Continue, Claimed
<1>2. /\ JobStep /\ n \in 1..MaxAttempts /\ tries' = [tries EXCEPT ![j] = n]
  BY <1>0, <1>1, ClaimMoves
<1>3. at \in {"run", "listings"} /\ (at = "listings" => j.kind # "recompute")
  OBVIOUS
<1> HIDE DEF n, at
<1>4. a \in Attempt /\ a.at = at /\ a.job = j /\ a.try = n /\ a.supersede = {}
  BY <1>2, <1>3, ClaimedAttempt
<1> HIDE DEF a
<1>5. AttemptOK(a, silver')
  BY <1>2, <1>3, <1>4 DEF AttemptOK, Extracting
<1>6. OutcomeOK(a, observations', recomputes')
  BY <1>3, <1>4 DEF OutcomeOK
<1>7. /\ attempt' \in [Workers -> Attempt] /\ attempt'[w] = a
      /\ \A v \in Workers : v # w => attempt'[v] = attempt[v]
  BY <1>0, <1>1, <1>4
<1>8. AttemptStep
  BY <1>5, <1>6, <1>7 DEF AttemptStep
<1>9. /\ tries \in [Work -> Nat] /\ tries' \in [Work -> Nat] /\ tries'[j] = n /\ n \in Nat
      /\ n = tries[j] + 1
      /\ \A i \in Work : i # j => tries'[i] = tries[i]
  BY <1>0, <1>2, Bounds DEF Jobs!JobTypeOK, n
<1>10. \A i \in Work : tries[i] =< tries'[i]
  BY <1>9
<1>11. ASSUME NEW v \in Workers, v # w, attempt[v].at # "idle"
       PROVE  /\ attempt[v].job \in Work /\ attempt[v].try \in Nat
              /\ attempt[v].try =< tries[attempt[v].job]
  BY <1>0, <1>11 DEF RunsOK, AttemptOK
<1>12. ASSUME NEW v \in Workers, attempt'[v].at # "idle"
       PROVE  attempt'[v].try =< tries'[attempt'[v].job]
  <2>1. CASE v = w
    BY <1>4, <1>7, <1>9, <2>1
  <2>2. CASE v # w
    BY <1>7, <1>9, <1>10, <1>11, <1>12, <2>2
  <2> QED
    BY <2>1, <2>2
<1>13. ASSUME NEW v \in Workers, v # w, attempt[v].at # "idle"
       PROVE  RunId(v) # <<j, n>>
  BY <1>9, <1>11, <1>13 DEF RunId
<1>14. RunId(w)' = <<j, n>> /\ \A v \in Workers : v # w => RunId(v)' = RunId(v)
  BY <1>4, <1>7 DEF RunId
<1>15. ASSUME NEW u \in Workers, NEW v \in Workers, attempt'[u].at # "idle",
              attempt'[v].at # "idle", RunId(u)' = RunId(v)'
       PROVE  u = v
  <2>1. CASE u # w /\ v # w
    BY <1>0, <1>7, <1>14, <1>15, <2>1 DEF RunsOK
  <2>2. CASE u = w /\ v # w
    BY <1>7, <1>13, <1>14, <1>15, <2>2
  <2>3. CASE u # w /\ v = w
    BY <1>7, <1>13, <1>14, <1>15, <2>3
  <2> QED
    BY <2>1, <2>2, <2>3
<1>16. recomputes' = recomputes
  BY <1>1 DEF extracted
<1>17. ASSUME NEW r \in Work \X (1..MaxAttempts), r[2] > tries'[r[1]]
       PROVE  recomputes'[r] # "succeeded"
  <2>1. r[1] \in Work /\ r[2] \in Nat
    BY Bounds
  <2>2. r[2] > tries[r[1]]
    BY <1>9, <1>10, <1>17, <2>1
  <2> QED
    BY <1>0, <1>16, <2>2 DEF RunsOK
<1>18. recomputes[<<j, n>>] # "succeeded"
  <2>1. <<j, n>> \in Work \X (1..MaxAttempts) /\ n > tries[j]
    BY <1>2, <1>9
  <2> QED
    BY <1>0, <2>1 DEF RunsOK
<1>19. ASSUME NEW v \in Workers, attempt'[v].at \notin {"idle", "report"}
       PROVE  recomputes'[RunId(v)'] # "succeeded"
  <2>1. CASE v = w
    BY <1>14, <1>16, <1>18, <2>1
  <2>2. CASE v # w
    BY <1>0, <1>7, <1>14, <1>16, <1>19, <2>2 DEF RunsOK
  <2> QED
    BY <2>1, <2>2
<1>20. RunsStep
  BY <1>0, <1>12, <1>15, <1>16, <1>17, <1>19 DEF RunsOK, RunsStep
<1>21. RowsStep
  <2>1. StoreOK' /\ silver =< silver'
    BY <1>1, Bounds DEF extracted, WorkInv, StoreOK
  <2> QED
    BY <1>1, <2>1, QuietRows DEF extracted
<1> QED
  BY <1>2, <1>8, <1>20, <1>21, StepKeeps

(* A recompute's run is written by its own attempt.                        *)
LEMMA OwnRunMoves ==
    ASSUME WorkInv, NEW w \in Workers, NEW a, attempt' = [attempt EXCEPT ![w] = a],
           attempt[w].at \notin {"idle", "report"}, tries' = tries,
           NEW state \in {"pending", "succeeded", "failed"},
           recomputes' = [recomputes EXCEPT ![RunId(w)] = state],
           state = "succeeded" => a.at = "report",
           a.at # "idle" => a.job = attempt[w].job /\ a.try = attempt[w].try
    PROVE  RunsMove(w, a) /\ recomputes'[RunId(w)] = state
<1>1. RunId(w) \in Work \X (1..MaxAttempts)
  BY RunIdIsARun
<1>2. recomputes \in [Work \X (1..MaxAttempts) -> {"none", "pending", "succeeded", "failed"}]
  BY DEF WorkInv, RunsOK
<1>3. /\ recomputes' \in [Work \X (1..MaxAttempts) -> {"none", "pending", "succeeded", "failed"}]
      /\ recomputes'[RunId(w)] = state
      /\ \A r \in Work \X (1..MaxAttempts) : r # RunId(w) => recomputes'[r] = recomputes[r]
  BY <1>1, <1>2
<1> QED
  BY <1>3 DEF RunsMove

LEMMA InsertRunKeeps ==
    ASSUME WorkInv, NEW w \in Workers, InsertRun(w)
    PROVE  WorkInv'
<1> DEFINE at == IF ReadsFirst(attempt[w].job.kind) THEN "ids" ELSE "listings"
           a == Placed(attempt[w], at)
<1>0. AttemptOK(attempt[w], silver)
  BY DEF WorkInv
<1>1. /\ attempt[w].at = "run" /\ attempt' = [attempt EXCEPT ![w] = a]
      /\ recomputes' = [recomputes EXCEPT ![RunId(w)] = "pending"]
      /\ UNCHANGED <<artifacts, observations, batches, silver, jobVars>>
  BY DEF InsertRun, Continue, Placed
<1>2. /\ at \in {"ids", "listings"}
      /\ at = "ids" <=> attempt[w].job.kind = "recompute"
  BY DEF ReadsFirst
<1> HIDE DEF at
<1>3. /\ a \in Attempt /\ a.at = at /\ a.job = attempt[w].job /\ a.try = attempt[w].try
  BY <1>0, <1>2, PlaceMoves DEF AttemptOK
<1> HIDE DEF a
<1>4. attempt[w].job \in Work /\ attempt[w].try \in 1..MaxAttempts
  BY <1>0, <1>1 DEF AttemptOK
<1>5. AttemptOK(a, silver')
  BY <1>2, <1>3, <1>4 DEF AttemptOK, Extracting
<1>6. OutcomeOK(a, observations', recomputes')
  BY <1>2, <1>3 DEF OutcomeOK
<1>7. tries' = tries
  BY <1>1 DEF jobVars
<1>8. RunsMove(w, a)
  BY <1>1, <1>3, <1>7, OwnRunMoves
<1>9. RunsStep /\ AttemptStep
  BY <1>5, <1>6, <1>8, WorkerSteps
<1>10. JobStep
  BY <1>1, QuietJobs DEF WorkInv
<1>11. RowsStep
  <2>1. StoreOK' /\ silver =< silver'
    BY <1>1, Bounds DEF WorkInv, StoreOK
  <2> QED
    BY <1>1, <2>1, QuietRows
<1> QED
  BY <1>9, <1>10, <1>11, StepKeeps

(* What ids_for_scope returns names rows that are there, in the scope.     *)
LEMMA IdsAreInScope ==
    ASSUME WorkInv, NEW scope, ScopeAssumption(scope), NEW id \in IdsForScope(scope)
    PROVE  /\ id \in (1..Len(Listings)) \X Keys \X (1..MaxBatches)
           /\ id[1] \in 1..silver /\ InScope(id, scope)
<1>1. PICK o \in ScopeOf(scope) : id = Id(o)
  BY DEF IdsForScope
<1>2. o \in observations
  BY DEF ScopeOf
<1>3. /\ o.listing \in 1..silver /\ o.concept_key \in Keys /\ o.batch \in 1..batches
  BY <1>2 DEF WorkInv, RowOK
<1>4. /\ silver \in 1..Len(Listings) /\ batches \in 0..MaxBatches
      /\ Len(Listings) \in Nat /\ MaxBatches \in Nat
  BY Bounds DEF WorkInv, StoreOK
<1>5. o.listing \in 1..Len(Listings) /\ o.batch \in 1..MaxBatches
  BY <1>3, <1>4
<1>6. id = <<o.listing, o.concept_key, o.batch>>
  BY <1>1 DEF Id
<1>7. InScope(id, scope)
  <2>1. id[1] = o.listing /\ id[2] = o.concept_key
    BY <1>6
  <2>2. CASE scope.kind = "concept"
    <3>1. o.concept_key = scope.key
      BY <2>2 DEF ScopeOf
    <3> QED
      BY <2>1, <2>2, <3>1 DEF InScope, Targets
  <2>3. CASE scope.kind = "extraction"
    <3>1. <<o.concept_key, o.artifact>> = scope.key
      BY <2>3 DEF ScopeOf
    <3> QED
      BY <2>1, <2>3, <3>1 DEF InScope, Targets
  <2>4. CASE scope.kind = "parser"
    <3>1. Listings[o.listing].normalizer = scope.key
      BY <2>4 DEF ScopeOf
    <3> QED
      BY <1>3, <2>1, <2>4, <3>1 DEF InScope, Targets
  <2>5. CASE scope.kind = "full"
    BY <1>3, <2>1, <2>5 DEF InScope, Targets
  <2> QED
    BY <2>2, <2>3, <2>4, <2>5 DEF ScopeAssumption
<1> QED
  BY <1>3, <1>5, <1>6, <1>7

LEMMA ReadIdsKeeps ==
    ASSUME WorkInv, NEW w \in Workers, ReadIds(w)
    PROVE  WorkInv'
<1> DEFINE at == IF ReadsFirst(attempt[w].job.kind) THEN "listings" ELSE "publish"
           ids == IdsForScope(attempt[w].job.scope)
           a == WithIds(attempt[w], ids, at)
<1>0. AttemptOK(attempt[w], silver) /\ attempt[w] \in Attempt
  BY DEF WorkInv, AttemptOK
<1>1. /\ attempt[w].at = "ids" /\ attempt' = [attempt EXCEPT ![w] = a]
      /\ UNCHANGED <<extracted, silver, jobVars>>
  BY DEF ReadIds, Continue, WithIds, Scope
<1>2. /\ at \in {"listings", "publish"}
      /\ at = "listings" <=> attempt[w].job.kind = "recompute"
  BY DEF ReadsFirst
<1>3. attempt[w].job \in Work /\ attempt[w].try \in 1..MaxAttempts
  BY <1>0, <1>1 DEF AttemptOK
<1>4. \A id \in ids : /\ id \in (1..Len(Listings)) \X Keys \X (1..MaxBatches)
                      /\ id[1] \in 1..silver /\ InScope(id, attempt[w].job.scope)
  <2>1. ScopeAssumption(attempt[w].job.scope)
    BY <1>3, CriteriaAssumption
  <2> QED
    BY <2>1, IdsAreInScope
<1> HIDE DEF at, ids
<1>5. ids \in SUBSET ((1..Len(Listings)) \X Keys \X (1..MaxBatches))
  BY <1>4
<1>6. /\ a \in Attempt /\ a.at = at /\ a.job = attempt[w].job /\ a.try = attempt[w].try
      /\ a.supersede = ids /\ a.listings = attempt[w].listings
  BY <1>0, <1>2, <1>5, IdsMove
<1> HIDE DEF a
<1>7. attempt[w].job.kind # "recompute" => attempt[w].listings \in 1..silver
  BY <1>0, <1>1 DEF AttemptOK
<1>8. AttemptOK(a, silver)
  BY <1>2, <1>3, <1>4, <1>6, <1>7 DEF AttemptOK, Extracting
<1> QED
  BY <1>1, <1>2, <1>6, <1>8, LocalKeeps

(* An attempt ends: its job is over, or the report is dropped.             *)
LEMMA ReportKeeps ==
    ASSUME WorkInv, NEW w \in Workers, attempt[w].at # "idle",
           Continue(w, NoAttempt), JobStep, tries' = tries, RowsStep,
           UNCHANGED recomputes
    PROVE  WorkInv'
<1>1. NoAttempt.at = "idle" /\ AttemptOK(NoAttempt, silver')
  BY NoAttemptOK
<1>2. RunsMove(w, NoAttempt)
  BY <1>1 DEF RunsMove, WorkInv, RunsOK, Continue
<1>3. OutcomeOK(NoAttempt, observations', recomputes')
  BY <1>1 DEF OutcomeOK
<1>4. RunsStep /\ AttemptStep
  BY <1>1, <1>2, <1>3, WorkerSteps
<1> QED
  BY <1>4, StepKeeps

(* Raise, in a step that leaves the rows alone.                            *)
LEMMA RaiseKeeps ==
    ASSUME WorkInv, NEW w \in Workers, attempt[w].at \notin {"idle", "report"}, Raise(w),
           UNCHANGED <<artifacts, observations, batches, silver>>
    PROVE  WorkInv'
<1>0. /\ AttemptOK(attempt[w], silver) /\ attempt[w] \in Attempt
      /\ attempt[w].job \in Work /\ attempt[w].try \in 1..MaxAttempts
  BY DEF WorkInv, AttemptOK
<1>1. RowsStep
  <2>1. StoreOK' /\ silver =< silver'
    BY Bounds DEF WorkInv, StoreOK
  <2> QED
    BY <2>1, QuietRows
<1>2. CASE attempt[w].job.kind = "recompute"
  <2> DEFINE a == WithOutcome(attempt[w], "permanent")
  <2>1. /\ attempt' = [attempt EXCEPT ![w] = a] /\ UNCHANGED jobVars
        /\ recomputes' = [recomputes EXCEPT ![RunId(w)] = "failed"]
    BY <1>2 DEF Raise, Continue, Failure, WithOutcome
  <2>2. /\ a \in Attempt /\ a.at = "report" /\ a.job = attempt[w].job /\ a.try = attempt[w].try
        /\ a.outcome = "permanent"
    BY <1>0, OutcomeMoves
  <2> HIDE DEF a
  <2>3. AttemptOK(a, silver')
    BY <1>0, <2>2 DEF AttemptOK, Extracting
  <2>4. OutcomeOK(a, observations', recomputes')
    BY <2>2 DEF OutcomeOK
  <2>5. tries' = tries /\ JobStep
    BY <2>1, QuietJobs DEF WorkInv, jobVars
  <2>6. RunsMove(w, a)
    BY <2>1, <2>2, <2>5, OwnRunMoves
  <2>7. RunsStep /\ AttemptStep
    BY <2>3, <2>4, <2>6, WorkerSteps
  <2> QED
    BY <1>1, <2>5, <2>7, StepKeeps
<1>3. CASE attempt[w].job.kind # "recompute"
  <2>1. /\ Jobs!RecordOutcome(w, attempt[w].job, "permanent") /\ Continue(w, NoAttempt)
        /\ UNCHANGED recomputes
    BY <1>3 DEF Raise, Report, Failure
  <2>2. JobStep /\ tries' = tries
    BY <1>0, <2>1, FailureMoves DEF WorkInv
  <2> QED
    BY <1>1, <2>1, <2>2, ReportKeeps
<1> QED
  BY <1>2, <1>3

LEMMA ReadListingsKeeps ==
    ASSUME WorkInv, NEW w \in Workers, ReadListings(w)
    PROVE  WorkInv'
<1>0. /\ AttemptOK(attempt[w], silver) /\ attempt[w] \in Attempt /\ attempt[w].at = "listings"
      /\ attempt[w].job \in Work /\ attempt[w].try \in 1..MaxAttempts
  BY DEF WorkInv, AttemptOK, ReadListings
<1>1. CASE TargetMissing(Scope(w))
  <2>1. Raise(w) /\ UNCHANGED <<artifacts, observations, batches, silver>>
    BY <1>1 DEF ReadListings
  <2> QED
    BY <1>0, <2>1, RaiseKeeps
<1>2. CASE ~TargetMissing(Scope(w))
  <2> DEFINE todo == Targets(attempt[w].job.scope)
             a == WithListings(attempt[w], silver, todo)
  <2>1. attempt' = [attempt EXCEPT ![w] = a] /\ UNCHANGED <<extracted, silver, jobVars>>
    BY <1>2 DEF ReadListings, Continue, WithListings, Scope, extracted
  <2>2. todo \in SUBSET Keys /\ todo # {}
    BY <1>0, Scopes
  <2>3. silver \in 0..Len(Listings) /\ silver \in 1..silver
    BY Bounds DEF WorkInv, StoreOK
  <2> HIDE DEF todo
  <2>4. /\ a \in Attempt /\ a.at = "find" /\ a.job = attempt[w].job /\ a.try = attempt[w].try
        /\ a.supersede = attempt[w].supersede /\ a.listings = silver /\ a.todo = todo
    BY <1>0, <2>2, <2>3, ListingsMove
  <2> HIDE DEF a
  <2>5. AttemptOK(a, silver)
    BY <1>0, <2>2, <2>3, <2>4 DEF AttemptOK, Extracting
  <2> QED
    BY <1>0, <2>1, <2>4, <2>5, LocalKeeps
<1> QED
  BY <1>1, <1>2

(* The concept that an attempt is at.                                      *)
LEMMA CurrentIsAKey ==
    ASSUME WorkInv, NEW w \in Workers, attempt[w].at \in Extracting
    PROVE  /\ AttemptOK(attempt[w], silver) /\ attempt[w] \in Attempt
           /\ attempt[w].job \in Work /\ attempt[w].try \in 1..MaxAttempts
           /\ attempt[w].todo \in SUBSET Keys
           /\ Current(w) \in attempt[w].todo /\ Current(w) \in Keys
           /\ attempt[w].at \notin {"idle", "report"}
<1>1. AttemptOK(attempt[w], silver)
  BY DEF WorkInv
<1>2. /\ attempt[w] \in Attempt /\ attempt[w].job \in Work /\ attempt[w].try \in 1..MaxAttempts
      /\ attempt[w].todo # {} /\ attempt[w].at \notin {"idle", "report"}
  BY <1>1 DEF AttemptOK, Extracting
<1>3. attempt[w].todo \in SUBSET Keys
  BY <1>2 DEF Attempt
<1>4. Current(w) \in attempt[w].todo
  BY <1>2 DEF Current
<1> QED
  BY <1>1, <1>2, <1>3, <1>4

LEMMA ArtifactIsAVersion ==
    ASSUME WorkInv, NEW k \in Keys
    PROVE  LatestArtifact(k) \in {1, 2, None}
<1>1. artifacts[k] \in Seq(1..2)
  BY DEF WorkInv, StoreOK
<1>2. CASE artifacts[k] = <<>>
  BY <1>2 DEF LatestArtifact
<1>3. CASE artifacts[k] # <<>>
  <2>1. Last(artifacts[k]) \in 1..2
    BY <1>1, <1>3 DEF Last
  <2>2. \A n \in 1..2 : n = 1 \/ n = 2
    OBVIOUS
  <2> QED
    BY <1>3, <2>1, <2>2 DEF LatestArtifact
<1> QED
  BY <1>2, <1>3

(* The next place of an attempt that goes on extracting.                   *)
LEMMA ExtractingStays ==
    ASSUME NEW a, NEW b \in Attempt, NEW s, AttemptOK(a, s), a.at \in Extracting,
           b.at \in Extracting, b.job = a.job, b.try = a.try, b.supersede = a.supersede,
           b.listings = a.listings, b.todo = a.todo
    PROVE  AttemptOK(b, s)
BY DEF AttemptOK, Extracting

LEMMA FindArtifactKeeps ==
    ASSUME WorkInv, NEW w \in Workers, FindArtifact(w)
    PROVE  WorkInv'
<1>0. attempt[w].at = "find" /\ attempt[w].at \in Extracting
  BY DEF FindArtifact, Extracting
<1>1. /\ AttemptOK(attempt[w], silver) /\ attempt[w] \in Attempt
      /\ Current(w) \in Keys /\ attempt[w].at \notin {"idle", "report"}
  BY <1>0, CurrentIsAKey
<1>2. CASE Registered(Current(w), Artifact(w))
  <2> DEFINE a == Placed(attempt[w], "extract")
  <2>1. attempt' = [attempt EXCEPT ![w] = a] /\ UNCHANGED <<extracted, silver, jobVars>>
    BY <1>2 DEF FindArtifact, Continue, Placed
  <2>2. /\ a \in Attempt /\ a.at = "extract" /\ a.job = attempt[w].job /\ a.try = attempt[w].try
        /\ a.supersede = attempt[w].supersede /\ a.listings = attempt[w].listings
        /\ a.todo = attempt[w].todo
    BY <1>1, PlaceMoves
  <2> HIDE DEF a
  <2>3. a.at \in Extracting
    BY <2>2 DEF Extracting
  <2>4. AttemptOK(a, silver)
    BY <1>0, <1>1, <2>2, <2>3, ExtractingStays
  <2> QED
    BY <1>1, <2>1, <2>2, <2>4, LocalKeeps
<1>3. CASE ~Registered(Current(w), Artifact(w))
  <2> DEFINE previous == LatestArtifact(Current(w))
             a == WithPrevious(attempt[w], "artifact", previous)
  <2>1. attempt' = [attempt EXCEPT ![w] = a] /\ UNCHANGED <<extracted, silver, jobVars>>
    BY <1>3 DEF FindArtifact, Continue, WithPrevious
  <2>2. previous \in {1, 2, None}
    BY <1>1, ArtifactIsAVersion
  <2> HIDE DEF previous
  <2>3. /\ a \in Attempt /\ a.at = "artifact" /\ a.job = attempt[w].job /\ a.try = attempt[w].try
        /\ a.supersede = attempt[w].supersede /\ a.listings = attempt[w].listings
        /\ a.todo = attempt[w].todo
    BY <1>1, <2>2, PreviousMoves
  <2> HIDE DEF a
  <2>4. a.at \in Extracting
    BY <2>3 DEF Extracting
  <2>5. AttemptOK(a, silver)
    BY <1>0, <1>1, <2>3, <2>4, ExtractingStays
  <2> QED
    BY <1>1, <2>1, <2>3, <2>5, LocalKeeps
<1> QED
  BY <1>2, <1>3

(* An attempt moves on while rows or artifacts change, but no run.         *)
LEMMA WorkerKeeps ==
    ASSUME WorkInv, NEW w \in Workers, NEW a, attempt' = [attempt EXCEPT ![w] = a], RowsStep,
           UNCHANGED <<recomputes, jobVars>>,
           attempt[w].at \notin {"idle", "report"}, a.at # "idle", a.at # "report",
           a.job = attempt[w].job, a.try = attempt[w].try, AttemptOK(a, silver')
    PROVE  WorkInv'
<1>1. RunsMove(w, a)
  BY DEF RunsMove, jobVars, WorkInv, RunsOK
<1>2. OutcomeOK(a, observations', recomputes')
  BY DEF OutcomeOK
<1>3. RunsStep /\ AttemptStep
  BY <1>1, <1>2, WorkerSteps
<1>4. JobStep
  BY QuietJobs DEF WorkInv
<1> QED
  BY <1>3, <1>4, StepKeeps

LEMMA InsertArtifactKeeps ==
    ASSUME WorkInv, NEW w \in Workers, InsertArtifact(w)
    PROVE  WorkInv'
<1>0. attempt[w].at = "artifact" /\ attempt[w].at \in Extracting
  BY DEF InsertArtifact, Extracting
<1>1. /\ AttemptOK(attempt[w], silver) /\ attempt[w] \in Attempt /\ attempt[w].job \in Work
      /\ Current(w) \in Keys /\ attempt[w].at \notin {"idle", "report"}
  BY <1>0, CurrentIsAKey
<1>2. UNCHANGED <<observations, batches, recomputes, silver>>
  BY DEF InsertArtifact
<1>3. ASSUME artifacts' \in [Keys -> Seq(1..2)] PROVE RowsStep
  <2>1. StoreOK' /\ silver =< silver'
    BY <1>2, <1>3, Bounds DEF WorkInv, StoreOK
  <2> QED
    BY <1>2, <2>1, QuietRows
<1>4. CASE Registered(Current(w), Artifact(w))
  <2>1. /\ Jobs!RecordOutcome(w, attempt[w].job, "permanent") /\ Continue(w, NoAttempt)
        /\ UNCHANGED artifacts
    BY <1>4 DEF InsertArtifact, Report
  <2>2. JobStep /\ tries' = tries
    BY <1>1, <2>1, FailureMoves DEF WorkInv
  <2>3. RowsStep
    BY <1>3, <2>1 DEF WorkInv, StoreOK
  <2> QED
    BY <1>1, <1>2, <2>1, <2>2, <2>3, ReportKeeps
<1>5. CASE ~Registered(Current(w), Artifact(w))
  <2> DEFINE at == IF attempt[w].previous = None THEN "extract" ELSE "previous"
             a == Placed(attempt[w], at)
  <2>1. /\ attempt' = [attempt EXCEPT ![w] = a] /\ UNCHANGED jobVars
        /\ artifacts' = WithArtifact(Current(w), Release[w])
    BY <1>5 DEF InsertArtifact, Continue, Placed, Artifact
  <2>2. at \in {"extract", "previous"} /\ at \in Extracting
    BY DEF Extracting
  <2> HIDE DEF at
  <2>3. /\ a \in Attempt /\ a.at = at /\ a.job = attempt[w].job /\ a.try = attempt[w].try
        /\ a.supersede = attempt[w].supersede /\ a.listings = attempt[w].listings
        /\ a.todo = attempt[w].todo
    BY <1>1, <2>2, PlaceMoves
  <2> HIDE DEF a
  <2>4. AttemptOK(a, silver')
    BY <1>0, <1>1, <1>2, <2>2, <2>3, ExtractingStays
  <2>5. Release[w] \in 1..2
    BY CriteriaAssumption
  <2>6. Append(artifacts[Current(w)], Release[w]) \in Seq(1..2)
    BY <1>1, <2>5 DEF WorkInv, StoreOK
  <2>7. artifacts' \in [Keys -> Seq(1..2)]
    BY <2>1, <2>6 DEF WorkInv, StoreOK, WithArtifact
  <2>8. RowsStep
    BY <1>3, <2>7
  <2> QED
    BY <1>1, <1>2, <2>1, <2>2, <2>3, <2>4, <2>8, WorkerKeeps
<1> QED
  BY <1>4, <1>5

LEMMA InvalidatePreviousKeeps ==
    ASSUME WorkInv, NEW w \in Workers, InvalidatePrevious(w)
    PROVE  WorkInv'
<1> DEFINE a == WithPrevious(attempt[w], "extract", None)
           selected == {o \in observations :
                          o.concept_key = Current(w) /\ o.artifact = attempt[w].previous}
<1>0. attempt[w].at = "previous" /\ attempt[w].at \in Extracting
  BY DEF InvalidatePrevious, Extracting
<1>1. /\ AttemptOK(attempt[w], silver) /\ attempt[w] \in Attempt
      /\ attempt[w].at \notin {"idle", "report"}
  BY <1>0, CurrentIsAKey
<1>2. /\ attempt' = [attempt EXCEPT ![w] = a] /\ observations' = Invalidated(selected)
      /\ UNCHANGED <<artifacts, batches, recomputes, silver, jobVars>>
  BY DEF InvalidatePrevious, Continue, WithPrevious
<1>3. /\ a \in Attempt /\ a.at = "extract" /\ a.job = attempt[w].job /\ a.try = attempt[w].try
      /\ a.supersede = attempt[w].supersede /\ a.listings = attempt[w].listings
      /\ a.todo = attempt[w].todo
  BY <1>1, PreviousMoves
<1> HIDE DEF a, selected
<1>4. a.at \in Extracting
  BY <1>3 DEF Extracting
<1>5. AttemptOK(a, silver')
  BY <1>0, <1>1, <1>2, <1>3, <1>4, ExtractingStays
<1>6. RowsStep
  BY <1>2, InvalidatedRows
<1> QED
  BY <1>1, <1>2, <1>3, <1>5, <1>6, WorkerKeeps

LEMMA ExtractConceptKeeps ==
    ASSUME WorkInv, NEW w \in Workers, ExtractConcept(w)
    PROVE  WorkInv'
<1> DEFINE left == attempt[w].todo \ {Current(w)}
           at == IF left # {} THEN "find"
                 ELSE IF ReadsFirst(attempt[w].job.kind) THEN "publish" ELSE "ids"
           a == WithTodo(attempt[w], left, at)
<1>0. attempt[w].at = "extract" /\ attempt[w].at \in Extracting
  BY DEF ExtractConcept, Extracting
<1>1. /\ AttemptOK(attempt[w], silver) /\ attempt[w] \in Attempt /\ attempt[w].job \in Work
      /\ attempt[w].try \in 1..MaxAttempts
      /\ attempt[w].todo \in SUBSET Keys /\ attempt[w].at \notin {"idle", "report"}
  BY <1>0, CurrentIsAKey
<1>2. UNCHANGED <<artifacts, observations, batches, silver>>
  BY DEF ExtractConcept
<1>3. CASE Raise(w)
  BY <1>1, <1>2, <1>3, RaiseKeeps
<1>4. CASE attempt' = [attempt EXCEPT ![w] = a] /\ UNCHANGED <<recomputes, jobVars>>
  <2>1. left \in SUBSET Keys
    BY <1>1
  <2>2. /\ at \in {"find", "publish", "ids"} /\ (at = "find" => left # {})
        /\ (at = "ids" => attempt[w].job.kind # "recompute")
    BY DEF ReadsFirst
  <2> HIDE DEF left, at
  <2>3. /\ a \in Attempt /\ a.at = at /\ a.job = attempt[w].job /\ a.try = attempt[w].try
        /\ a.supersede = attempt[w].supersede /\ a.listings = attempt[w].listings
        /\ a.todo = left
    BY <1>1, <2>1, <2>2, TodoMoves
  <2> HIDE DEF a
  <2>4. /\ attempt[w].listings \in 1..silver
        /\ attempt[w].job.kind = "recompute" => \A id \in attempt[w].supersede :
              id[1] \in 1..attempt[w].listings /\ InScope(id, attempt[w].job.scope)
    BY <1>0, <1>1 DEF AttemptOK
  <2>5. AttemptOK(a, silver)
    BY <1>1, <2>2, <2>3, <2>4 DEF AttemptOK, Extracting
  <2> QED
    BY <1>1, <1>2, <1>4, <2>2, <2>3, <2>5, LocalKeeps DEF extracted
<1> QED
  BY <1>3, <1>4 DEF ExtractConcept, Continue, WithTodo

-----------------------------------------------------------------------------
(* Publication                                                             *)

(* What a new observation says is grounded, unless it is failed.           *)
LEMMA NewRowOK ==
    ASSUME WorkInv, NEW w \in Workers, NEW answers, NEW l \in 1..silver,
           NEW k \in Keys, k \in ModelConcepts => answers[<<l, k>>] \in Answers
    PROVE  LET o == NewObservation(w, l, k, answers) IN
           /\ RowOK(o, silver, batches + 1)
           /\ o.listing = l /\ o.concept_key = k /\ o.batch = batches + 1
           /\ o.state \in {"active", "failed"}
<1> DEFINE content == IF k \in RuleConcepts THEN RuleObservation(k, Listings[l])
                      ELSE ModelObservation(k, answers[<<l, k>>])
           o == NewObservation(w, l, k, answers)
<1>1. /\ batches \in Nat /\ silver \in 1..Len(Listings) /\ Len(Listings) \in Nat
  BY Bounds DEF WorkInv, StoreOK
<1>2. l \in 1..Len(Listings) /\ batches + 1 \in 1..(batches + 1)
  BY <1>1
<1>3. Listings[l] \in Listing
  BY <1>2, Bounds
<1>4. Release[w] \in 1..2 /\ (k \in RuleConcepts \/ k \in ModelConcepts)
  BY CriteriaAssumption DEF ModelConcepts
<1>5. /\ content.state \in {"active", "failed"}
      /\ content.state = "active" => Grounded(k, Listings[l], content)
  <2>1. CASE k \in RuleConcepts
    BY <1>3, <2>1, RuleGrounded
  <2>2. CASE k \notin RuleConcepts
    BY <1>4, <2>2, ModelGrounded
  <2> QED
    BY <2>1, <2>2
<1>6. o = [listing |-> l, concept_key |-> k, batch |-> batches + 1, artifact |-> Release[w],
           value |-> content.value, score |-> content.score, confidence |-> content.confidence,
           fragment |-> content.fragment, state |-> content.state]
  BY DEF NewObservation, Artifact
<1> HIDE DEF content, o
<1>7. /\ o.listing = l /\ o.concept_key = k /\ o.batch = batches + 1 /\ o.artifact = Release[w]
      /\ o.state = content.state
      /\ o.value = content.value /\ o.score = content.score
      /\ o.confidence = content.confidence /\ o.fragment = content.fragment
  BY <1>6
<1>8. o.state = "active" => Grounded(k, Listings[l], o)
  BY <1>5, <1>7 DEF Grounded
<1>9. o = [listing |-> o.listing, concept_key |-> o.concept_key, batch |-> o.batch,
           artifact |-> o.artifact, value |-> o.value, score |-> o.score,
           confidence |-> o.confidence, fragment |-> o.fragment, state |-> o.state]
  BY <1>6
<1>10. RowOK(o, silver, batches + 1)
  BY <1>2, <1>4, <1>5, <1>7, <1>8, <1>9 DEF RowOK
<1> QED
  BY <1>5, <1>7, <1>10 DEF o

(* What an attempt reads: listings that Silver has, concepts in use, and   *)
(* the first listing unless its scope is a parser.                         *)
LEMMA ExtractedPairs ==
    ASSUME WorkInv, NEW w \in Workers, attempt[w].at = "publish"
    PROVE  /\ attempt[w].job \in Work /\ attempt[w].try \in 1..MaxAttempts
           /\ ListingsOf(w) \subseteq 1..silver /\ Targets(Scope(w)) \subseteq Keys
           /\ Scope(w).kind # "parser" => 1 \in ListingsOf(w)
<1>1. AttemptOK(attempt[w], silver)
  BY DEF WorkInv
<1>2. /\ attempt[w].job \in Work /\ attempt[w].try \in 1..MaxAttempts
      /\ attempt[w].listings \in 1..silver
  BY <1>1 DEF AttemptOK
<1>3. silver \in Nat
  BY Bounds DEF WorkInv, StoreOK
<1>4. Targets(Scope(w)) \subseteq Keys
  BY <1>2, Scopes DEF Scope
<1>5. /\ \A l \in 1..attempt[w].listings : l \in 1..silver
      /\ 1 \in 1..attempt[w].listings
  BY <1>2, <1>3
<1> QED
  BY <1>2, <1>4, <1>5 DEF ListingsOf

(* A row that is superseded keeps what it observed.                        *)
Out(o, ids) == IF Id(o) \in ids THEN [o EXCEPT !.state = "superseded"] ELSE o

LEMMA SupersededRowOK ==
    ASSUME WorkInv, NEW o \in observations, NEW ids
    PROVE  /\ RowOK(Out(o, ids), silver, batches + 1)
           /\ Out(o, ids).listing = o.listing /\ Out(o, ids).concept_key = o.concept_key
           /\ Id(o) \notin ids => Out(o, ids) = o
<1>1. RowOK(o, silver, batches)
  BY DEF WorkInv
<1>2. silver \in Nat /\ batches \in Nat /\ batches + 1 \in Nat /\ batches =< batches + 1
  BY Bounds DEF WorkInv, StoreOK
<1>3. RowOK(o, silver, batches + 1)
  BY <1>1, <1>2, RowStays
<1>4. CASE Id(o) \in ids
  <2>1. Out(o, ids) = [o EXCEPT !.state = "superseded"]
    BY <1>4 DEF Out
  <2>2. "superseded" \in {"invalidated", "superseded"}
    OBVIOUS
  <2>3. ASSUME NEW p, p = [o EXCEPT !.state = "superseded"]
        PROVE  /\ RowOK(p, silver, batches + 1)
               /\ p.listing = o.listing /\ p.concept_key = o.concept_key
    BY <1>3, <2>2, <2>3, RowEnds, Zenon
  <2> QED
    BY <1>4, <2>1, <2>3
<1>5. CASE Id(o) \notin ids
  BY <1>3, <1>5 DEF Out
<1> QED
  BY <1>4, <1>5

(* The rows of a publication, as a step of the store.                      *)
LEMMA PublishedRows ==
    ASSUME WorkInv, NEW w \in Workers, attempt[w].at = "publish", batches < MaxBatches,
           NEW answers \in [Asked(w) -> Answers],
           observations' = Superseded(attempt[w].supersede) \cup Extract(w, answers),
           batches' = batches + 1, UNCHANGED <<artifacts, silver>>
    PROVE  RowsStep /\ Observes(observations', attempt[w].job)
<1> DEFINE ids == attempt[w].supersede
           New(l, k) == NewObservation(w, l, k, answers)
<1>1. /\ attempt[w].job \in Work
      /\ ListingsOf(w) \subseteq 1..silver /\ Targets(Scope(w)) \subseteq Keys
      /\ Scope(w).kind # "parser" => 1 \in ListingsOf(w)
  BY ExtractedPairs
<1>2. ASSUME NEW l \in ListingsOf(w), NEW k \in Targets(Scope(w))
      PROVE  /\ New(l, k) \in observations' /\ RowOK(New(l, k), silver, batches + 1)
             /\ New(l, k).listing = l /\ New(l, k).concept_key = k
  <2>1. New(l, k) \in Extract(w, answers)
    <3>1. <<l, k>> \in ListingsOf(w) \X Targets(Scope(w))
      OBVIOUS
    <3> QED
      BY <3>1 DEF Extract
  <2>2. l \in 1..silver /\ k \in Keys
    BY <1>1
  <2>3. k \in ModelConcepts => answers[<<l, k>>] \in Answers
    BY DEF Asked
  <2> QED
    BY <2>1, <2>2, <2>3, NewRowOK
<1>3. ASSUME NEW o \in Superseded(ids)
      PROVE  RowOK(o, silver, batches + 1)
  <2>1. PICK p \in observations : o = Out(p, ids)
    BY DEF Superseded, Out
  <2> QED
    BY <2>1, SupersededRowOK
<1>4. ASSUME NEW o \in Extract(w, answers)
      PROVE  RowOK(o, silver, batches + 1)
  <2>1. PICK p \in ListingsOf(w) \X Targets(Scope(w)) : o = New(p[1], p[2])
    BY DEF Extract
  <2>2. p[1] \in ListingsOf(w) /\ p[2] \in Targets(Scope(w))
    OBVIOUS
  <2> QED
    BY <1>2, <2>1, <2>2
<1>5. \A o \in observations' : RowOK(o, silver', batches')
  BY <1>3, <1>4
<1>6. ASSUME NEW o \in observations
      PROVE  \E p \in observations' : p.listing = o.listing /\ p.concept_key = o.concept_key
  <2>1. Out(o, ids) \in Superseded(ids)
    BY DEF Superseded, Out
  <2>2. Out(o, ids) \in observations'
    BY <2>1
  <2> QED
    BY <2>2, SupersededRowOK
<1>7. StoreOK' /\ silver =< silver'
  <2>1. batches + 1 \in 0..MaxBatches /\ silver =< silver
    BY Bounds DEF WorkInv, StoreOK
  <2> QED
    BY <2>1 DEF WorkInv, StoreOK
<1>8. Observes(observations', attempt[w].job)
  BY <1>1, <1>2 DEF Observes, Scope
<1> QED
  BY <1>5, <1>6, <1>7, <1>8 DEF RowsStep

LEMMA PublishKeeps ==
    ASSUME WorkInv, NEW w \in Workers, Publish(w)
    PROVE  WorkInv'
<1>0. /\ attempt[w].at = "publish" /\ batches < MaxBatches
      /\ UNCHANGED <<artifacts, silver, jobVars>>
  BY DEF Publish
<1>1. /\ AttemptOK(attempt[w], silver) /\ attempt[w] \in Attempt
      /\ attempt[w].job \in Work /\ attempt[w].try \in 1..MaxAttempts
  BY <1>0 DEF WorkInv, AttemptOK
<1>2. JobStep /\ tries' = tries
  BY <1>0, QuietJobs DEF WorkInv, jobVars
<1>3. PICK answers \in [Asked(w) -> Answers] :
        LET rows == Superseded(attempt[w].supersede) \cup Extract(w, answers) IN
        IF OneActive(rows)
        THEN /\ observations' = rows
             /\ batches' = batches + 1
             /\ recomputes' = RunSucceeded(w)
             /\ attempt' = [attempt EXCEPT ![w] = WithOutcome(attempt[w], "succeeded")]
        ELSE /\ attempt' = [attempt EXCEPT ![w] = WithOutcome(attempt[w], "permanent")]
             /\ UNCHANGED <<observations, batches, recomputes>>
  BY DEF Publish, Continue, WithOutcome
<1> DEFINE rows == Superseded(attempt[w].supersede) \cup Extract(w, answers)
<1>4. CASE OneActive(rows)
  <2> DEFINE a == WithOutcome(attempt[w], "succeeded")
  <2>1. /\ observations' = rows /\ batches' = batches + 1 /\ recomputes' = RunSucceeded(w)
        /\ attempt' = [attempt EXCEPT ![w] = a]
    BY <1>3, <1>4
  <2>2. RowsStep /\ Observes(observations', attempt[w].job)
    BY <1>0, <2>1, PublishedRows
  <2>3. /\ a \in Attempt /\ a.at = "report" /\ a.job = attempt[w].job /\ a.try = attempt[w].try
        /\ a.outcome = "succeeded"
    BY <1>1, OutcomeMoves
  <2> HIDE DEF a, rows
  <2>4. AttemptOK(a, silver')
    BY <1>1, <2>3 DEF AttemptOK, Extracting
  <2>5. /\ RunsMove(w, a)
        /\ attempt[w].job.kind = "recompute" => recomputes'[RunId(w)] = "succeeded"
    <3>1. CASE attempt[w].job.kind = "recompute"
      <4>1. recomputes' = [recomputes EXCEPT ![RunId(w)] = "succeeded"]
        BY <2>1, <3>1 DEF RunSucceeded
      <4> QED
        BY <1>0, <1>2, <2>1, <2>3, <4>1, OwnRunMoves
    <3>2. CASE attempt[w].job.kind # "recompute"
      <4>1. recomputes' = recomputes
        BY <2>1, <3>2 DEF RunSucceeded
      <4> QED
        BY <1>0, <1>2, <2>1, <2>3, <3>2, <4>1 DEF RunsMove, WorkInv, RunsOK
    <3> QED
      BY <3>1, <3>2
  <2>6. OutcomeOK(a, observations', recomputes')
    BY <2>2, <2>3, <2>5 DEF OutcomeOK, RunId
  <2>7. RunsStep /\ AttemptStep
    BY <2>4, <2>5, <2>6, WorkerSteps
  <2> QED
    BY <1>2, <2>2, <2>7, StepKeeps
<1>5. CASE ~OneActive(rows)
  <2> DEFINE a == WithOutcome(attempt[w], "permanent")
  <2>1. /\ UNCHANGED <<observations, batches, recomputes>>
        /\ attempt' = [attempt EXCEPT ![w] = a]
    BY <1>3, <1>5
  <2>2. RowsStep
    <3>1. StoreOK' /\ silver =< silver'
      BY <1>0, <2>1, Bounds DEF WorkInv, StoreOK
    <3> QED
      BY <2>1, <3>1, QuietRows
  <2>3. /\ a \in Attempt /\ a.at = "report" /\ a.job = attempt[w].job /\ a.try = attempt[w].try
        /\ a.outcome = "permanent"
    BY <1>1, OutcomeMoves
  <2> HIDE DEF a, rows
  <2>4. AttemptOK(a, silver')
    BY <1>1, <2>3 DEF AttemptOK, Extracting
  <2>5. RunsMove(w, a)
    BY <1>0, <1>2, <2>1, <2>3 DEF RunsMove, WorkInv, RunsOK
  <2>6. OutcomeOK(a, observations', recomputes')
    BY <2>3 DEF OutcomeOK
  <2>7. RunsStep /\ AttemptStep
    BY <2>4, <2>5, <2>6, WorkerSteps
  <2> QED
    BY <1>2, <2>2, <2>7, StepKeeps
<1> QED
  BY <1>4, <1>5

-----------------------------------------------------------------------------
(* The rest of the steps                                                   *)

(* A step leaves the rows of the store as they are.                        *)
LEMMA SameRows ==
    ASSUME WorkInv, UNCHANGED <<artifacts, observations, batches, silver>>
    PROVE  RowsStep
<1>1. StoreOK' /\ silver =< silver'
  BY Bounds DEF WorkInv, StoreOK
<1> QED
  BY <1>1, QuietRows

LEMMA EndAttemptKeeps ==
    ASSUME WorkInv, NEW w \in Workers, EndAttempt(w)
    PROVE  WorkInv'
<1>0. /\ attempt[w].at = "report" /\ Continue(w, NoAttempt)
      /\ Jobs!RecordOutcome(w, attempt[w].job, attempt[w].outcome)
      /\ UNCHANGED <<artifacts, observations, batches, silver, recomputes>>
  BY DEF EndAttempt, Report, extracted
<1>1. /\ attempt[w].job \in Work /\ attempt[w].try \in 1..MaxAttempts
      /\ attempt[w].outcome \in {"succeeded", "permanent"}
  BY <1>0 DEF WorkInv, AttemptOK
<1>2. RowsStep
  BY <1>0, SameRows
<1>3. JobStep /\ tries' = tries
  <2>1. CASE attempt[w].outcome = "permanent"
    BY <1>0, <1>1, <2>1, FailureMoves DEF WorkInv
  <2>2. CASE attempt[w].outcome = "succeeded"
    <3>1. OutcomeOK(attempt[w], observations, recomputes)
      BY DEF WorkInv
    <3>2. Succeeded(attempt[w].job, observations', recomputes')
      BY <1>0, <1>1, <2>2, <3>1 DEF OutcomeOK, Succeeded
    <3> QED
      BY <1>0, <1>1, <2>2, <3>2, SuccessMoves DEF WorkInv
  <2> QED
    BY <1>1, <2>1, <2>2
<1> QED
  BY <1>0, <1>2, <1>3, ReportKeeps

LEMMA WorkerDiesKeeps ==
    ASSUME WorkInv, NEW w \in Workers, WorkerDies(w)
    PROVE  WorkInv'
<1>1. /\ attempt[w].at # "idle" /\ Continue(w, NoAttempt)
      /\ UNCHANGED <<artifacts, observations, batches, silver, recomputes, jobVars>>
  BY DEF WorkerDies, extracted
<1>2. RowsStep
  BY <1>1, SameRows
<1>3. JobStep /\ tries' = tries
  BY <1>1, QuietJobs DEF WorkInv, jobVars
<1> QED
  BY <1>1, <1>2, <1>3, ReportKeeps

(* A step of a job that no attempt takes part in.                          *)
LEMMA JobKeeps ==
    ASSUME WorkInv, JobStep, tries' = tries, UNCHANGED <<extracted, silver, attempt>>
    PROVE  WorkInv'
<1>1. UNCHANGED <<artifacts, observations, batches, recomputes>>
  BY DEF extracted
<1>2. RowsStep
  BY <1>1, SameRows
<1>3. RunsStep /\ AttemptStep
  BY <1>1, QuietRuns
<1> QED
  BY <1>2, <1>3, StepKeeps

LEMMA SubmitWorkKeeps ==
    ASSUME WorkInv, NEW j \in Work, SubmitWork(j)
    PROVE  WorkInv'
<1>1. JobStep /\ tries' = tries
  BY SubmitMoves DEF SubmitWork, WorkInv
<1> QED
  BY <1>1, JobKeeps DEF SubmitWork

LEMMA LeaseLapsesKeeps ==
    ASSUME WorkInv, NEW j \in Work, LeaseLapses(j)
    PROVE  WorkInv'
<1>1. JobStep /\ tries' = tries
  BY LapseMoves DEF LeaseLapses, WorkInv
<1> QED
  BY <1>1, JobKeeps DEF LeaseLapses

(* Rows are invalidated, or a listing arrives, beside the attempts.        *)
LEMMA RowsKeep ==
    ASSUME WorkInv, RowsStep, UNCHANGED <<recomputes, attempt, jobVars>>
    PROVE  WorkInv'
<1>1. RunsStep /\ AttemptStep
  BY QuietRuns DEF jobVars
<1>2. JobStep
  BY QuietJobs DEF WorkInv
<1> QED
  BY <1>1, <1>2, StepKeeps

LEMMA InvalidateScopeKeeps ==
    ASSUME WorkInv, NEW scope, InvalidateScope(scope)
    PROVE  WorkInv'
<1>1. RowsStep
  BY InvalidatedRows DEF InvalidateScope
<1> QED
  BY <1>1, RowsKeep DEF InvalidateScope

LEMMA InvalidateForConceptKeeps ==
    ASSUME WorkInv, NEW c \in Clients, InvalidateForConcept(c)
    PROVE  WorkInv'
<1> DEFINE selected == {o \in observations : o.concept_key = client[c].draft.key}
<1>1. /\ observations' = Invalidated(selected)
      /\ UNCHANGED <<artifacts, batches, recomputes, silver, attempt, jobVars>>
  BY DEF InvalidateForConcept
<1> HIDE DEF selected
<1>2. RowsStep
  BY <1>1, InvalidatedRows
<1> QED
  BY <1>1, <1>2, RowsKeep

LEMMA ListingArrivesKeeps ==
    ASSUME WorkInv, ListingArrives
    PROVE  WorkInv'
<1>1. /\ silver < Len(Listings) /\ silver' = silver + 1
      /\ UNCHANGED <<artifacts, observations, batches, recomputes, attempt, jobVars>>
  BY DEF ListingArrives, extracted
<1>2. silver' \in 1..Len(Listings) /\ silver =< silver'
  BY <1>1, Bounds DEF WorkInv, StoreOK
<1>3. StoreOK'
  BY <1>1, <1>2 DEF WorkInv, StoreOK
<1>4. RowsStep
  BY <1>1, <1>2, <1>3, QuietRows
<1> QED
  BY <1>1, <1>4, RowsKeep

(* Nothing of it changes.                                                  *)
LEMMA SameWork ==
    ASSUME WorkInv, UNCHANGED <<extracted, silver, attempt, jobVars>>
    PROVE  WorkInv'
<1>1. JobStep /\ tries' = tries
  BY QuietJobs DEF WorkInv, jobVars
<1> QED
  BY <1>1, JobKeeps

LEMMA SamePreferences ==
    ASSUME PreferenceInv, UNCHANGED <<registry, preferences, client>>
    PROVE  PreferenceInv'
<1>1. UNCHANGED <<concepts, versions, facts, client>>
  BY DEF registry, preferences
<1> QED
  BY <1>1 DEF PreferenceInv, RegistryOK, OnePreference, ActiveFacts, Active

-----------------------------------------------------------------------------
(* The invariant                                                           *)

LEMMA InitIInv == Init => IInv
<1> SUFFICES ASSUME Init PROVE IInv
  OBVIOUS
<1>1. RegistryOK
  <2>1. ASSUME NEW k \in Keys, Given(concepts[k]) PROVE concepts[k].version \in 1..MaxVersions
    <3>1. k \in DOMAIN Seed /\ concepts[k] = Seed[k]
      BY <2>1 DEF Init, Given
    <3>2. Seed[k].version = 1
      BY <3>1, CriteriaAssumption
    <3> QED
      BY <3>1, <3>2, Bounds
  <2>2. versions \subseteq Keys \X (1..MaxVersions)
    <3>1. DOMAIN Seed \subseteq Keys
      BY CriteriaAssumption
    <3>2. 1 \in 1..MaxVersions
      BY Bounds
    <3> QED
      BY <3>1, <3>2 DEF Init
  <2>3. DOMAIN concepts = Keys
    BY DEF Init
  <2> QED
    BY <2>1, <2>2, <2>3 DEF RegistryOK
<1>2. PreferenceInv
  BY <1>1, NoRequestOK DEF Init, PreferenceInv, OnePreference
<1>3. StoreOK
  <2>1. <<>> \in Seq(1..2)
    OBVIOUS
  <2>2. 1 \in 1..Len(Listings) /\ 0 \in 0..MaxBatches
    BY Bounds
  <2> QED
    BY <2>1, <2>2 DEF Init, StoreOK
<1>4. /\ attempt = [w \in Workers |-> NoAttempt]
      /\ \A w \in Workers : attempt[w].at = "idle" /\ AttemptOK(attempt[w], silver)
  BY NoAttemptOK DEF Init
<1>5. attempt \in [Workers -> Attempt]
  BY <1>4, NoAttemptOK DEF AttemptOK
<1>6. Jobs!JobTypeOK /\ \A j \in Work : phase[j] = "absent" /\ tries[j] = 0
  BY Bounds DEF Init, Jobs!NoJobs, Jobs!Job!Init, Jobs!JobTypeOK
<1>7. recomputes = [r \in Work \X (1..MaxAttempts) |-> "none"]
  BY DEF Init
<1>8. RunsOK
  BY <1>4, <1>7 DEF RunsOK
<1>9. \A w \in Workers : OutcomeOK(attempt[w], observations, recomputes)
  BY <1>4 DEF OutcomeOK
<1>10. SucceededWorkIsComplete
  BY <1>6 DEF SucceededWorkIsComplete
<1>11. \A o \in observations : RowOK(o, silver, batches)
  BY DEF Init
<1>12. WorkInv
  BY <1>3, <1>4, <1>5, <1>6, <1>8, <1>9, <1>10, <1>11 DEF WorkInv
<1> QED
  BY <1>2, <1>12 DEF IInv

(* The steps of a request.                                                 *)
LEMMA ClientKeeps ==
    ASSUME IInv, NEW c \in Clients,
           \/ \E d \in ConceptDrafts : RegisterConcept(c, d)
           \/ \E d \in FactDrafts : RecordPreferenceFact(c, d)
           \/ \E d \in EditDrafts : CompileProfile(c, d)
           \/ SaveConcept(c) \/ InsertVersion(c)
           \/ CommitFact(c) \/ NumberCompilation(c) \/ InsertCompilation(c) \/ Abort(c)
    PROVE  IInv'
<1>0. PreferenceInv /\ WorkInv
  BY DEF IInv
<1>1. UNCHANGED <<extracted, silver, attempt, jobVars>>
  BY DEF RegisterConcept, RecordPreferenceFact, CompileProfile, SaveConcept, InsertVersion,
         CommitFact, NumberCompilation, InsertCompilation, Abort
<1>2. WorkInv'
  BY <1>0, <1>1, SameWork
<1>3. PreferenceInv'
  <2>1. ASSUME NEW d \in ConceptDrafts, RegisterConcept(c, d) PROVE PreferenceInv'
    BY <1>0, <2>1, RegisterConceptKeeps
  <2>2. ASSUME NEW d \in FactDrafts, RecordPreferenceFact(c, d) PROVE PreferenceInv'
    BY <1>0, <2>2, RecordPreferenceFactKeeps
  <2>3. ASSUME NEW d \in EditDrafts, CompileProfile(c, d) PROVE PreferenceInv'
    BY <1>0, <2>3, CompileProfileKeeps
  <2>4. CASE SaveConcept(c)
    BY <1>0, <2>4, SaveConceptKeeps
  <2>5. CASE InsertVersion(c)
    BY <1>0, <2>5, InsertVersionKeeps
  <2>6. CASE CommitFact(c)
    BY <1>0, <2>6, CommitFactKeeps
  <2>7. CASE NumberCompilation(c)
    BY <1>0, <2>7, NumberCompilationKeeps
  <2>8. CASE InsertCompilation(c)
    BY <1>0, <2>8, DoneKeeps DEF InsertCompilation, registry
  <2>9. CASE Abort(c)
    BY <1>0, <2>9, DoneKeeps DEF Abort, registry, preferences
  <2> QED
    BY <2>1, <2>2, <2>3, <2>4, <2>5, <2>6, <2>7, <2>8, <2>9
<1> QED
  BY <1>2, <1>3 DEF IInv

(* The steps of an attempt.                                                *)
LEMMA WorkKeeps ==
    ASSUME IInv, NEW w \in Workers,
           \/ \E j \in Work : ClaimWork(w, j)
           \/ InsertRun(w) \/ ReadIds(w) \/ ReadListings(w)
           \/ FindArtifact(w) \/ InsertArtifact(w) \/ InvalidatePrevious(w) \/ ExtractConcept(w)
           \/ Publish(w) \/ EndAttempt(w) \/ WorkerDies(w)
    PROVE  IInv'
<1>0. PreferenceInv /\ WorkInv
  BY DEF IInv
<1>1. UNCHANGED <<registry, preferences, client>>
  BY DEF ClaimWork, InsertRun, ReadIds, ReadListings, FindArtifact, InsertArtifact,
         InvalidatePrevious, ExtractConcept, Publish, EndAttempt, WorkerDies
<1>2. PreferenceInv'
  BY <1>0, <1>1, SamePreferences
<1>3. WorkInv'
  <2>1. ASSUME NEW j \in Work, ClaimWork(w, j) PROVE WorkInv'
    BY <1>0, <2>1, ClaimKeeps
  <2>2. CASE InsertRun(w)
    BY <1>0, <2>2, InsertRunKeeps
  <2>3. CASE ReadIds(w)
    BY <1>0, <2>3, ReadIdsKeeps
  <2>4. CASE ReadListings(w)
    BY <1>0, <2>4, ReadListingsKeeps
  <2>5. CASE FindArtifact(w)
    BY <1>0, <2>5, FindArtifactKeeps
  <2>6. CASE InsertArtifact(w)
    BY <1>0, <2>6, InsertArtifactKeeps
  <2>7. CASE InvalidatePrevious(w)
    BY <1>0, <2>7, InvalidatePreviousKeeps
  <2>8. CASE ExtractConcept(w)
    BY <1>0, <2>8, ExtractConceptKeeps
  <2>9. CASE Publish(w)
    BY <1>0, <2>9, PublishKeeps
  <2>10. CASE EndAttempt(w)
    BY <1>0, <2>10, EndAttemptKeeps
  <2>11. CASE WorkerDies(w)
    BY <1>0, <2>11, WorkerDiesKeeps
  <2> QED
    BY <2>1, <2>2, <2>3, <2>4, <2>5, <2>6, <2>7, <2>8, <2>9, <2>10, <2>11
<1> QED
  BY <1>2, <1>3 DEF IInv

LEMMA IInvStep == IInv /\ [Next]_vars => IInv'
<1> SUFFICES ASSUME IInv, [Next]_vars PROVE IInv'
  OBVIOUS
<1>0. PreferenceInv /\ WorkInv
  BY DEF IInv
<1>1. ASSUME NEW c \in Clients, InvalidateForConcept(c) PROVE IInv'
  <2>1. WorkInv'
    BY <1>0, <1>1, InvalidateForConceptKeeps
  <2>2. PreferenceInv'
    BY <1>0, <1>1, DoneKeeps DEF InvalidateForConcept, registry, preferences
  <2> QED
    BY <2>1, <2>2 DEF IInv
<1>2. ASSUME NEW j \in Work, SubmitWork(j) \/ LeaseLapses(j) \/ InvalidateScope(j.scope)
      PROVE  IInv'
  <2>1. UNCHANGED <<registry, preferences, client>>
    BY <1>2 DEF SubmitWork, LeaseLapses, InvalidateScope
  <2>2. PreferenceInv'
    BY <1>0, <2>1, SamePreferences
  <2>3. WorkInv'
    BY <1>0, <1>2, SubmitWorkKeeps, LeaseLapsesKeeps, InvalidateScopeKeeps
  <2> QED
    BY <2>2, <2>3 DEF IInv
<1>3. CASE ListingArrives
  <2>1. PreferenceInv'
    BY <1>0, <1>3, SamePreferences DEF ListingArrives
  <2>2. WorkInv'
    BY <1>0, <1>3, ListingArrivesKeeps
  <2> QED
    BY <2>1, <2>2 DEF IInv
<1>4. CASE UNCHANGED vars
  <2>1. UNCHANGED <<registry, preferences, client>> /\ UNCHANGED <<extracted, silver, attempt, jobVars>>
    BY <1>4 DEF vars
  <2> QED
    BY <1>0, <2>1, SamePreferences, SameWork DEF IInv
<1> QED
  BY <1>1, <1>2, <1>3, <1>4, ClientKeeps, WorkKeeps DEF Next

(* The invariant holds in every reachable state, for any clients, workers, *)
(* concepts, listings, jobs and answers of the model.                      *)
THEOREM IInvInvariant == Spec => []IInv
BY InitIInv, IInvStep, PTL DEF Spec

(* The registry, the observations and what every attempt carries keep      *)
(* their types, the observations naming listings that Silver has and       *)
(* batches that were published.                                            *)
THEOREM CriteriaTypes == Spec => []TypeOK
<1>1. IInv => TypeOK
  BY DEF IInv, PreferenceInv, RegistryOK, WorkInv, StoreOK, RunsOK, RowOK, TypeOK
<1> QED
  BY <1>1, IInvInvariant, PTL

(* A preference that was stated stays stated by one active fact: the       *)
(* unique index makes a second change of it fail as a whole, however the   *)
(* requests of record_preference_fact interleave.                          *)
THEOREM OnePreferenceInvariant == Spec => []OnePreference
<1>1. IInv => OnePreference
  BY DEF IInv, PreferenceInv
<1> QED
  BY <1>1, IInvInvariant, PTL

(* A job that ended as succeeded has published an observation of each of   *)
(* its concepts, and a recompute has closed its run: an attempt reports    *)
(* success only after the transaction of publish.                          *)
THEOREM SucceededWorkIsCompleteInvariant == Spec => []SucceededWorkIsComplete
<1>1. IInv => SucceededWorkIsComplete
  BY DEF IInv, WorkInv
<1> QED
  BY <1>1, IInvInvariant, PTL

(* Every active observation can be traced to what it quotes, to the        *)
(* normalized field or to a valid answer, for any listings and any         *)
(* answers: the order of the rules, the projection they are given and the  *)
(* checks of the model's output see to it.                                 *)
THEOREM ObservationsAreGroundedInvariant == Spec => []ObservationsAreGrounded
<1>1. ASSUME IInv, NEW o \in observations, o.state = "active"
      PROVE  Grounded(o.concept_key, Listings[o.listing], o)
  <2>1. RowOK(o, silver, batches)
    BY <1>1 DEF IInv, WorkInv
  <2> QED
    BY <1>1, <2>1 DEF RowOK
<1>2. IInv => ObservationsAreGrounded
  BY <1>1 DEF ObservationsAreGrounded, Active
<1> QED
  BY <1>2, IInvInvariant, PTL

-----------------------------------------------------------------------------
(* Coverage                                                                *)

(* Only a publication closes a run as succeeded.                           *)
LEMMA OnlyPublicationSucceeds ==
    ASSUME IInv, [Next]_vars, NEW r \in DOMAIN recomputes, recomputes[r] = "pending",
           recomputes'[r] = "succeeded"
    PROVE  \E w \in Workers : Publish(w)
<1>1. /\ recomputes \in [Work \X (1..MaxAttempts) -> {"none", "pending", "succeeded", "failed"}]
      /\ recomputes' # recomputes
  BY DEF IInv, WorkInv, RunsOK
<1>2. ASSUME NEW w \in Workers, InsertRun(w) \/ ReadListings(w) \/ ExtractConcept(w)
      PROVE  FALSE
  <2>1. PICK state \in {"pending", "failed"} :
          recomputes' = [recomputes EXCEPT ![RunId(w)] = state]
    BY <1>1, <1>2 DEF InsertRun, ReadListings, ExtractConcept, Raise
  <2> QED
    BY <1>1, <2>1
<1>3. CASE UNCHANGED vars
  BY <1>1, <1>3 DEF vars, extracted
<1>4. CASE Next
  BY <1>1, <1>2, <1>4
     DEF Next, extracted, RegisterConcept, RecordPreferenceFact, CompileProfile, SaveConcept,
         InsertVersion, InvalidateForConcept, CommitFact, NumberCompilation, InsertCompilation,
         Abort, ClaimWork, ReadIds, FindArtifact, InsertArtifact, InvalidatePrevious, EndAttempt,
         WorkerDies, SubmitWork, LeaseLapses, InvalidateScope, ListingArrives
<1> QED
  BY <1>3, <1>4

(* What a recompute supersedes it has extracted again.                     *)
LEMMA SupersededIsExtracted ==
    ASSUME WorkInv, NEW w \in Workers, attempt[w].at = "publish",
           attempt[w].job.kind = "recompute", NEW o, Id(o) \in attempt[w].supersede
    PROVE  o.listing \in ListingsOf(w) /\ o.concept_key \in Targets(Scope(w))
<1>1. AttemptOK(attempt[w], silver)
  BY DEF WorkInv
<1>2. Id(o)[1] \in 1..attempt[w].listings /\ InScope(Id(o), attempt[w].job.scope)
  BY <1>1 DEF AttemptOK
<1>3. Id(o)[1] = o.listing /\ Id(o)[2] = o.concept_key
  BY DEF Id
<1> QED
  BY <1>2, <1>3 DEF InScope, ListingsOf, Scope

LEMMA PublicationKeepsCoverage ==
    ASSUME WorkInv, NEW w \in Workers, Publish(w), recomputes' # recomputes
    PROVE  Covered(observations) \subseteq
              Covered(observations') \cup Refused(observations' \ observations)
<1>0. attempt[w].at = "publish"
  BY DEF Publish
<1>1. PICK answers \in [Asked(w) -> Answers] :
        /\ observations' = Superseded(attempt[w].supersede) \cup Extract(w, answers)
        /\ recomputes' = RunSucceeded(w)
  BY DEF Publish
<1>2. attempt[w].job.kind = "recompute"
  BY <1>1 DEF RunSucceeded
<1>3. ListingsOf(w) \subseteq 1..silver /\ Targets(Scope(w)) \subseteq Keys
  BY <1>0, ExtractedPairs
<1> SUFFICES ASSUME NEW o \in observations, o.state = "active"
             PROVE  <<o.listing, o.concept_key>> \in
                       Covered(observations') \cup Refused(observations' \ observations)
  BY DEF Covered, Active
<1>4. CASE Id(o) \notin attempt[w].supersede
  <2>1. o \in Superseded(attempt[w].supersede)
    BY <1>4 DEF Superseded
  <2>2. o \in observations'
    BY <1>1, <2>1
  <2> QED
    BY <2>2 DEF Covered, Active
<1>5. CASE Id(o) \in attempt[w].supersede
  <2> DEFINE l == o.listing
             k == o.concept_key
             p == NewObservation(w, l, k, answers)
  <2>1. l \in ListingsOf(w) /\ k \in Targets(Scope(w))
    BY <1>0, <1>2, <1>5, SupersededIsExtracted
  <2>2. <<l, k>> \in ListingsOf(w) \X Targets(Scope(w))
    BY <2>1
  <2>3. p \in Extract(w, answers)
    BY <2>2 DEF Extract
  <2>4. p \in observations'
    BY <1>1, <2>3
  <2>5. l \in 1..silver /\ k \in Keys
    BY <1>3, <2>1
  <2>6. k \in ModelConcepts => answers[<<l, k>>] \in Answers
    BY <2>1 DEF Asked
  <2>7. p.listing = l /\ p.concept_key = k /\ p.batch = batches + 1 /\ p.state \in {"active", "failed"}
    BY <2>5, <2>6, NewRowOK
  <2> HIDE DEF l, k, p
  <2>8. p \notin observations
    <3>1. batches \in Nat
      BY Bounds DEF WorkInv, StoreOK
    <3>2. \A q \in observations : q.batch \in 1..batches
      BY DEF WorkInv, RowOK
    <3> QED
      BY <2>7, <3>1, <3>2
  <2>9. CASE p.state = "active"
    BY <2>4, <2>7, <2>9 DEF Covered, Active, l, k
  <2>10. CASE p.state = "failed"
    BY <2>4, <2>7, <2>8, <2>10 DEF Refused, l, k
  <2> QED
    BY <2>7, <2>9, <2>10
<1> QED
  BY <1>4, <1>5

(* A recompute supersedes only what it has extracted again, so that its    *)
(* publication takes away no observation without a new one, whatever       *)
(* arrived or was published after it read what it supersedes.              *)
THEOREM RecomputeKeepsCoverageHolds == Spec => RecomputeKeepsCoverage
<1> DEFINE Step == (\E r \in DOMAIN recomputes :
                      recomputes[r] = "pending" /\ recomputes'[r] = "succeeded")
              => Covered(observations) \subseteq
                    Covered(observations') \cup Refused(observations' \ observations)
<1>1. ASSUME IInv, [Next]_vars PROVE [Step]_vars
  <2> SUFFICES ASSUME NEW r \in DOMAIN recomputes, recomputes[r] = "pending",
                      recomputes'[r] = "succeeded"
               PROVE  Covered(observations) \subseteq
                         Covered(observations') \cup Refused(observations' \ observations)
    OBVIOUS
  <2>1. PICK w \in Workers : Publish(w)
    BY <1>1, OnlyPublicationSucceeds
  <2>2. recomputes' # recomputes
    OBVIOUS
  <2> QED
    BY <1>1, <2>1, <2>2, PublicationKeepsCoverage DEF IInv
<1>2. Spec => [][Step]_vars
  BY <1>1, IInvInvariant, PTL DEF Spec
<1> QED
  BY <1>2 DEF RecomputeKeepsCoverage

=============================================================================

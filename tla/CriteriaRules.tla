---------------------------- MODULE CriteriaRules ----------------------------
(***************************************************************************)
(* The pure parts of Criteria: the deterministic rules with their          *)
(* evidence, the bounded retries of the model extractor, and the           *)
(* compilation of preferences and edits into criteria.                     *)
(*                                                                         *)
(* A description is the sequence of the phrases that a rule's expressions  *)
(* can find in it: [says, n], n being the number that the phrase carries.  *)
(* Numbers of a listing are only compared: they are numerals.  Scores are  *)
(* tenths.                                                                 *)
(***************************************************************************)
EXTENDS Integers, Sequences, FiniteSets, FiniteSetsExt, SequencesExt

CONSTANT None

Given(x) == x # None

(* A listing as Silver stores it, and what the provider may return.        *)
Phrase == [says : STRING, n : STRING \cup {None}]
Listing ==
    [description_text : Seq(Phrase), amenities : SUBSET STRING,
     rooms : STRING \cup {None}, floor : STRING \cup {None}, normalizer : STRING]
Output ==
    [value : STRING \cup {None}, evidence : BOOLEAN, confidence : Int \cup {None}]

-----------------------------------------------------------------------------
(* rules.py: each expression as the phrases that it matches.  The positive *)
(* form of balcon also matches inside the negative one.                    *)

BalconNegative == {"sin balcon", "no balcon", "no tiene balcon"}
BalconPositive == {"balcon"} \cup BalconNegative
CocinaNone == {"sin cocina", "no tiene cocina", "sin espacio para cocina"}
CocinaSeparada == {"cocina separada"}
CocinaIntegrada == {"cocina integrada", "integrada"}

Search(text, phrases) == {i \in DOMAIN text : text[i].says \in phrases}

(* What the quoted fragment is taken from, which a rule also puts in       *)
(* matched_on; {} without a fragment.                                      *)
Outcome(value, fragment) == [value |-> value, fragment |-> fragment]
NoEvidence == Outcome(None, {})
InText(value) == Outcome(value, {"description_text"})

(* Mutant of RunBalcon: the positive form is tried first.                  *)
PositiveFirst(p) ==
    IF Search(p.description_text, BalconPositive) # {} THEN InText("true")
    ELSE IF Search(p.description_text, BalconNegative) # {} THEN InText("false")
    ELSE IF p.amenities \cap BalconPositive # {} THEN Outcome("true", {"amenities"})
    ELSE NoEvidence

RunBalcon(p) ==
    IF Search(p.description_text, BalconNegative) # {} THEN InText("false")
    ELSE IF Search(p.description_text, BalconPositive) # {} THEN InText("true")
    ELSE IF p.amenities \cap BalconPositive # {} THEN Outcome("true", {"amenities"})
    ELSE NoEvidence

(* The first number in the text, else the normalized field, uncited.       *)
FirstNumber(text, phrase, field) ==
    LET found == Search(text, {phrase}) IN
    IF found # {} THEN InText(text[Min(found)].n) ELSE Outcome(field, {})

RunAmbientes(p) == FirstNumber(p.description_text, "ambientes", p.rooms)
RunPiso(p) == FirstNumber(p.description_text, "piso", p.floor)

RunTipoCocina(p) ==
    IF Search(p.description_text, CocinaNone) # {} THEN InText("none")
    ELSE IF Search(p.description_text, CocinaSeparada) # {} THEN InText("separada")
    ELSE IF Search(p.description_text, CocinaIntegrada) # {} THEN InText("integrada")
    ELSE NoEvidence

(* The concepts of the extraction contract: a rule runs where there is one *)
(* and the model is asked for the rest.                                    *)
Contract == {"balcon", "ambientes", "piso", "tipo_cocina", "luminosidad", "estado_general"}
RuleConcepts == {"balcon", "ambientes", "piso", "tipo_cocina"}
ModelConcepts == Contract \ RuleConcepts

RunRule(key, p) ==
    CASE key = "balcon" -> RunBalcon(p)
      [] key = "ambientes" -> RunAmbientes(p)
      [] key = "piso" -> RunPiso(p)
      [] key = "tipo_cocina" -> RunTipoCocina(p)

-----------------------------------------------------------------------------
(* extraction-v1: the fields that a concept may see.                       *)

InputFields(key) ==
    CASE key = "balcon" -> {"description_text", "amenities"}
      [] key = "ambientes" -> {"description_text", "rooms"}
      [] key = "piso" -> {"description_text", "floor"}
      [] key = "tipo_cocina" -> {"description_text"}
      [] OTHER -> {"description_text", "amenities", "rooms", "floor"}

Absent(field) ==
    CASE field = "description_text" -> <<>> [] field = "amenities" -> {} [] OTHER -> None

BuildPermittedInput(listing, key) ==
    [field \in {"description_text", "amenities", "rooms", "floor"} |->
        IF field \in InputFields(key) THEN listing[field] ELSE Absent(field)]

Observed(value, score, confidence, fragment, state) ==
    [value |-> value, score |-> score, confidence |-> confidence,
     fragment |-> fragment, state |-> state]

RuleScore(outcome) ==
    IF outcome.value = None THEN 0 ELSE IF outcome.fragment # {} THEN 10 ELSE 6

RuleObservation(key, listing) ==
    LET outcome == RunRule(key, BuildPermittedInput(listing, key)) IN
    Observed(outcome.value, RuleScore(outcome), IF Given(outcome.value) THEN 10 ELSE 0,
             outcome.fragment, "active")

-----------------------------------------------------------------------------
(* What the provider answers: None when the call failed, else an output    *)
(* with the keys of the schema, each None when it is missing.              *)

Enum(key) ==
    IF key = "luminosidad" THEN {"baja", "media", "alta"}
    ELSE {"malo", "regular", "bueno", "muy_bueno"}

ASSUME NoneAssumption == \A key \in ModelConcepts : None \notin Enum(key)

ValidModelOutput(key, output) ==
    /\ output.value \in Enum(key)
    /\ Given(output.confidence) /\ output.confidence >= 0 /\ output.confidence <= 10
    /\ output.evidence

Accepted(key, output) == Given(output) /\ ValidModelOutput(key, output)

(* The first valid answer counts; without one the observation is failed.   *)
(* The fragment is in the model's words: nobody looks for it in the text.  *)
ModelObservation(key, answers) ==
    LET valid == {i \in DOMAIN answers : Accepted(key, answers[i])}
        first == answers[Min(valid)]
    IN IF valid = {} THEN Observed(None, 0, 0, {}, "failed")
       ELSE Observed(first.value, 0, first.confidence,
                     IF first.evidence THEN {"model"} ELSE {}, "active")

-----------------------------------------------------------------------------
(* registry.py and compile.py                                              *)

AllowedParams ==
    [numeric_range |-> {"min", "max"}, categorical |-> {"allowed_values"},
     geo_proximity |-> {"radius_m"}, semantic_feature |-> {"concept", "threshold"}]

ValidConceptSeed(seed) ==
    /\ seed.matcher_type \in DOMAIN AllowedParams
    /\ seed.params \subseteq AllowedParams[seed.matcher_type]

(* The concept named by a key or by an alias.                              *)
LookupConcept(concepts, key) ==
    IF key \in DOMAIN concepts THEN concepts[key]
    ELSE LET owners == {k \in DOMAIN concepts : key \in concepts[k].aliases} IN
         IF owners = {} THEN None ELSE concepts[CHOOSE k \in owners : TRUE]

FromMemory(edit) == edit.source_ref = "edit:memory"

(* A soft preference becomes a hard one only with its confirmation.        *)
Confirmed(edit, confirmations) ==
    edit.soft_to_hard => edit.concept_key \in confirmations

ValidEdit(concepts, edit, confirmations) ==
    LET concept == LookupConcept(concepts, edit.concept_key) IN
    /\ Given(concept)
    /\ edit.matcher_type = concept.matcher_type
    /\ edit.params \subseteq AllowedParams[edit.matcher_type]
    /\ Confirmed(edit, confirmations)

(* An edit out of semantic memory is skipped with a warning; any other one *)
(* that is not valid raises.                                               *)
CompileRaises(concepts, edits, confirmations) ==
    \E i \in DOMAIN edits : ~FromMemory(edits[i]) /\ ~ValidEdit(concepts, edits[i], confirmations)

(* Where a criterion comes from: the id of a fact, or 0 for an edit.       *)
Criterion(key, matcher_type, source, soft_to_hard) ==
    [concept_key |-> key, matcher_type |-> matcher_type, source |-> source,
     soft_to_hard |-> soft_to_hard]

HeavierOrOlder(f, g) == f.weight > g.weight \/ (f.weight = g.weight /\ f.id < g.id)

FactsToCriteria(concepts, facts) ==
    LET known == {f \in facts : Given(LookupConcept(concepts, f.concept_key))}
        ordered == SetToSortSeq(known, HeavierOrOlder)
    IN [i \in DOMAIN ordered |->
          Criterion(ordered[i].concept_key,
                    LookupConcept(concepts, ordered[i].concept_key).matcher_type,
                    ordered[i].id, FALSE)]

CompileCriteria(concepts, facts, edits) ==
    LET explicit == SelectSeq(edits, LAMBDA e : ~FromMemory(e)) IN
    [i \in DOMAIN explicit |->
       Criterion(explicit[i].concept_key, explicit[i].matcher_type, 0,
                 explicit[i].soft_to_hard)] \o FactsToCriteria(concepts, facts)
=============================================================================

------------------------------ MODULE Evidence ------------------------------
(***************************************************************************)
(* What the guardrails between retrieval and generation compute: the       *)
(* sanitiser of retrieved text, both verifiers of evidence sufficiency,    *)
(* and the answer constraints of the third retrieval pipeline.             *)
(*                                                                         *)
(* A text is a sequence of sentences; a sentence is a sequence of tokens   *)
(* and how it ends: "stop" (punctuation and a blank), "line" (a line break *)
(* only, as a row of a table) or "none".  A token is a pair of its kind    *)
(* and its text: a word <<"word", w>>, or a value <<type, v>> which the    *)
(* extractor of that type finds.  A question is what the patterns extract  *)
(* from it: entities, keywords, all its terms, and the type of value it    *)
(* asks for as each verifier's patterns classify it.                       *)
(***************************************************************************)
EXTENDS Ordering, FiniteSetsExt

CONSTANTS
  ConflictTypes,   \* types of which two values contradict each other
  CasedTypes,      \* types whose extractor needs upper case
  DurationUnits,   \* entities that name a unit of time
  ScopeWords,      \* words that name a plan, a region or a billing cycle
  Threshold        \* a best score below it makes a vague question off topic

NoType  == "none"
NoValue == <<NoType, NoType>>
Verifiers == {"v1", "v2"}

\* What a text must be.
IsSequence(s) == s \in Seq(ToSet(s))
WellFormed(text) == IsSequence(text) /\ \A i \in DOMAIN text : IsSequence(text[i].tokens)

-----------------------------------------------------------------------------
(* The sanitiser: an embedded instruction becomes a marker, its stop included. *)
SanitiseText(text) ==
  [i \in DOMAIN text |->
     IF text[i].injected THEN [tokens |-> <<>>, ends |-> "none", injected |-> FALSE] ELSE text[i]]

-----------------------------------------------------------------------------
(* The requested fact. *)
RequestedFact(v, question, best) ==
  LET type     == question.type[v]
      unitOnly == type = "duration" /\ question.entities \subseteq DurationUnits
      entities == IF unitOnly THEN {} ELSE question.entities
  IN [entities |-> entities,
      keywords |-> IF entities = {} THEN question.keywords ELSE {},
      type     |-> type,
      offTopic |-> entities = {} /\ type = NoType /\ best < Threshold]

Specific(fact) == fact.entities # {} \/ fact.type # NoType

(* The kinds of value an extractor of the verifier finds.  The first one
   extracts from lower-cased text, in which no cased value is left. *)
Accepts(v, type) ==
  CASE type = "currency"                    -> {"currency", "percentage"}
    [] type = "date" /\ v = "v2"            -> {"date", "month"}
    [] type \in CasedTypes /\ v = "v1"      -> {}
    [] OTHER                                -> {type}

ValuePositions(v, type, tokens) == {i \in DOMAIN tokens : tokens[i][1] \in Accepts(v, type)}

WholeText(text) == FlattenSeq([i \in DOMAIN text |-> text[i].tokens])

(* Sentences as the verifier splits them: the second also at line breaks. *)
Closing(v) == IF v = "v1" THEN {"stop"} ELSE {"stop", "line"}

Units(v, text) ==
  LET ends == {i \in DOMAIN text : i = Len(text) \/ text[i].ends \in Closing(v)}
      last == Sorted(ends, {p \in ends \X ends : p[1] < p[2]})
  IN [k \in DOMAIN last |-> WholeText(SubSeq(text, IF k = 1 THEN 1 ELSE last[k - 1] + 1, last[k]))]

-----------------------------------------------------------------------------
(* Whether one chunk supports the fact, and with which value. *)
\* Variant of the next: one sentence too many.
WideProximity == 2
Proximity    == 1   \* sentences on each side of a window
FewKeywords  == 3   \* up to so many keywords, one hit is enough

RequiredHits(keywords) == IF Cardinality(keywords) <= FewKeywords THEN 1 ELSE 2
Hits(terms, tokens) == Cardinality(terms \cap ToSet(tokens))

Anchored(fact, tokens) ==
  IF fact.entities # {} THEN fact.entities \subseteq ToSet(tokens)
  ELSE fact.keywords = {} \/ Hits(fact.keywords, tokens) >= RequiredHits(fact.keywords)

Shows(v, fact, tokens) ==
  /\ Anchored(fact, tokens)
  /\ fact.type # NoType => ValuePositions(v, fact.type, tokens) # {}

(* Where the first anchor stands. *)
AnchorAt(fact, tokens) ==
  LET anchors == IF fact.entities # {} THEN fact.entities ELSE fact.keywords
      at      == {i \in DOMAIN tokens : tokens[i] \in anchors}
  IN IF at = {} THEN 1 ELSE Min(at)

Distance(i, j) == IF i < j THEN j - i ELSE i - j

(* The value of a window: the first, or the one nearest to the anchor. *)
MatchedValue(v, fact, tokens) ==
  LET at     == ValuePositions(v, fact.type, tokens)
      anchor == AnchorAt(fact, tokens)
      Nearest(i) == \A j \in at : \/ Distance(i, anchor) < Distance(j, anchor)
                                  \/ Distance(i, anchor) = Distance(j, anchor) /\ i <= j
  IN CASE at = {}              -> NoValue
       [] at # {} /\ v = "v1" -> tokens[Min(at)]
       [] OTHER                -> tokens[CHOOSE i \in at : Nearest(i)]

(* Short of support: how much of the fact the whole chunk mentions. *)
NearMiss(fact, tokens) ==
  LET terms  == IF fact.entities # {} THEN fact.entities ELSE fact.keywords
      needed == IF fact.entities # {} THEN Cardinality(terms) ELSE RequiredHits(terms)
      hits   == Hits(terms, tokens)
      full   == hits > 0 /\ hits >= needed
  IN CASE hits = 0                   -> "insufficient_evidence"
       [] hits \in 1 .. needed - 1    -> "topic_match_only"
       [] full /\ fact.type # NoType  -> "value_missing"
       [] OTHER -> IF fact.entities # {} THEN "nearby_but_incomplete" ELSE "topic_match_only"

Support(v, sentence, fact, window) ==
  [outcome |-> "direct_support", sentence |-> sentence, value |-> MatchedValue(v, fact, window)]

NoSupport(fact, tokens) == [outcome |-> NearMiss(fact, tokens), sentence |-> <<>>, value |-> NoValue]

(* The first sentence that shows the fact, else the first whose window does. *)
FirstSupport(v, fact, units, windows) ==
  LET Showing(texts) == {i \in DOMAIN texts : Shows(v, fact, texts[i])}
      First(texts)   == Support(v, units[Min(Showing(texts))], fact, texts[Min(Showing(texts))])
  IN IF Showing(windows.tight) # {} THEN First(windows.tight)
     ELSE IF Showing(windows.wide) # {} THEN First(windows.wide)
     ELSE NoSupport(fact, windows.whole)

(* A sentence, its neighbours and the whole, each with the title appended
   where entities are asked for. *)
Windows(units, title) ==
  LET Around(i) == SubSeq(units, IF i > Proximity THEN i - Proximity ELSE 1,
                          IF i + Proximity < Len(units) THEN i + Proximity ELSE Len(units))
  IN [tight |-> [i \in DOMAIN units |-> units[i] \o title],
      wide  |-> [i \in DOMAIN units |-> FlattenSeq(Around(i)) \o title],
      whole |-> FlattenSeq(units) \o title]

SupportIn(v, fact, units, title) ==
  FirstSupport(v, fact, units, Windows(units, IF fact.entities # {} THEN title ELSE <<>>))

ChunkSupport(v, fact, text, title) == SupportIn(v, fact, Units(v, text), title)

-----------------------------------------------------------------------------
(* The verdict on all chunks. *)
Direct(outcomes) == {i \in DOMAIN outcomes : outcomes[i].outcome = "direct_support"}

(* The values that may contradict each other.  The second verifier counts a
   chunk found by keywords alone only when its sentence holds two of them. *)
CompetingValues(v, fact, outcomes) ==
  LET strong(i) == Hits(fact.keywords, outcomes[i].sentence)
                     >= IF Cardinality(fact.keywords) < 2 THEN Cardinality(fact.keywords) ELSE 2
  IN {outcomes[i].value : i \in {j \in Direct(outcomes) :
        outcomes[j].value # NoValue /\ (v = "v2" /\ fact.keywords # {} => strong(j))}}

Reason(v, fact, outcomes) ==
  CASE fact.offTopic -> "related_topic_only"
    [] ~fact.offTopic /\ ~Specific(fact) -> "sufficient_evidence"
    [] Specific(fact) /\ Direct(outcomes) = {} -> "requested_fact_absent"
    [] OTHER -> IF fact.type \in ConflictTypes /\ Cardinality(CompetingValues(v, fact, outcomes)) > 1
                THEN "conflicting_evidence" ELSE "sufficient_evidence"

VerdictOn(v, fact, outcomes) ==
  [reason |-> Reason(v, fact, outcomes), outcomes |-> IF Specific(fact) THEN outcomes ELSE <<>>]

VerdictFor(v, fact, texts, titles) ==
  VerdictOn(v, fact, [i \in DOMAIN texts |-> ChunkSupport(v, fact, texts[i], titles[i])])

EvidenceVerdict(v, question, texts, titles, best) ==
  VerdictFor(v, RequestedFact(v, question, best), texts, titles)

-----------------------------------------------------------------------------
(* The answer constraints of the third pipeline.  Only the second verifier
   hands on which values and sentences it matched. *)
ScopeAmbiguity(v, outcomes) ==
  LET valued == {i \in Direct(outcomes) : outcomes[i].value # NoValue}
      scoped == {i \in valued : ToSet(outcomes[i].sentence) \cap ScopeWords # {}}
  IN /\ v = "v2"
     /\ Cardinality({outcomes[i].value : i \in valued}) > 1
     /\ Cardinality(scoped) > 1

Constrained(v, verdict) ==
  IF verdict.reason = "conflicting_evidence" /\ ScopeAmbiguity(v, verdict.outcomes)
  THEN "ambiguous_request" ELSE verdict.reason

(* The blocks generation may use: those that support, unless none is told. *)
AllowedBlocks(verdict, n) ==
  IF Direct(verdict.outcomes) = {} THEN 1 .. n ELSE Direct(verdict.outcomes)
=============================================================================

----------------------------- MODULE MCAnswers -----------------------------
(* Instances of Answers: a small library in several wordings.              *)
EXTENDS Answering

MCChunks     == 1 .. 3
MCChunkIndex == <<1, 2, 1>>
MCDocOf      == <<"pricing", "pricing", "policy">>
MCTitles     == [d \in {"pricing", "policy"} |->
                   IF d = "pricing" THEN <<<<"word", "plans">>>> ELSE <<<<"word", "policy">>>>]
MCScopes     == {{}, {"pricing"}, {"pricing", "policy"}}

Word(w)  == <<"word", w>>
Money(v) == <<"currency", v>>
Time(v)  == <<"duration", v>>
Sentence(tokens) == [tokens |-> tokens, ends |-> "stop", injected |-> FALSE]
Line(tokens)     == [tokens |-> tokens, ends |-> "line", injected |-> FALSE]
Injected(tokens) == [tokens |-> tokens, ends |-> "stop", injected |-> TRUE]

Asks(entities, keywords, first, second, blocked) ==
  [entities |-> entities, keywords |-> keywords, terms |-> entities \cup keywords,
   type |-> [v1 |-> first, v2 |-> second], blocked |-> blocked]

MCDurationUnits == {Word("month"), Word("year")}
MCScopeWords    == {Word("starter"), Word("team")}

Price  == Asks({Word("starter")}, {Word("starter"), Word("price")}, "currency", "currency", FALSE)
Expiry == Asks({}, {Word("reset"), Word("link")}, "duration", "duration", FALSE)
Chatty == Asks({}, {Word("reset"), Word("link"), Word("mail"), Word("works")}, "duration", "duration", FALSE)
Office == Asks({Word("office")}, {Word("office")}, "location", "location", FALSE)
Phone  == Asks({}, {Word("phone")}, "contact", "eligibility", FALSE)
Thanks == Asks({}, {Word("thanks")}, "none", "none", FALSE)
Demand == Asks({}, {Word("refund")}, "none", "none", TRUE)

(* A table, a sentence and a sentence that may contradict both. *)
Prices(other) ==
  << <<Line(<<Word("team"), Money("99")>>), Line(<<Word("starter"), Money("29")>>)>>,
     <<Sentence(<<Word("starter"), Money("29")>>), Injected(<<Word("starter"), Money("1")>>)>>,
     <<Sentence(<<Word("terms")>>), Sentence(<<Word("starter"), Money(other)>>)>> >>

(* A fact over two sentences, two values beside one shared word, and an    *)
(* injected value.                                                         *)
Resets ==
  << <<Sentence(<<Word("reset"), Word("link")>>), Sentence(<<Word("link"), Time("1 hour")>>)>>,
     <<Sentence(<<Word("link"), Time("2 days")>>)>>,
     <<Injected(<<Word("reset"), Word("link"), Time("9 years")>>), Sentence(<<Word("mail")>>)>> >>

(* Anchors and values too far apart, or of which only one is there. *)
Apart ==
  << <<Sentence(<<Word("starter")>>), Sentence(<<Word("terms")>>), Sentence(<<Word("terms")>>),
       Sentence(<<Word("team"), Money("99")>>)>>,
     <<Sentence(<<Word("office"), <<"location", "Leeds">>>>), Sentence(<<Word("phone")>>)>>,
     <<Sentence(<<Word("phone"), <<"eligibility", "available">>>>)>> >>

MCCases ==
  {[question |-> q, texts |-> t] : q \in {Price}, t \in {Prices("29"), Prices("39"), Apart}}
    \cup {[question |-> q, texts |-> Resets] : q \in {Expiry, Chatty, Thanks, Demand}}
    \cup {[question |-> q, texts |-> Apart] : q \in {Office, Phone}}

Deployment(pipeline, reranker, rewriter, verifier, floor, loud) ==
  [pipeline |-> pipeline, reranker |-> reranker, rewriter |-> rewriter, verifier |-> verifier,
   floor |-> floor, loud |-> loud]

Asked(questions) == {c \in MCCases : c.question \in questions}

MCRequests ==
  {[case |-> c, setup |-> Deployment("dense", FALSE, "identity", "v1", 0, FALSE)] : c \in MCCases}
    \cup
  {[case |-> c, setup |-> Deployment("hybrid", FALSE, "identity", "v2", 0, FALSE)] :
     c \in Asked({Expiry, Chatty, Office, Phone})}
    \cup
  {[case |-> c, setup |-> Deployment("v3", FALSE, "model", "v2", 0, TRUE)] :
     c \in Asked({Price, Expiry, Demand})}
    \cup
  {[case |-> c, setup |-> Deployment("v3", TRUE, "identity", "v1", 0, TRUE)] :
     c \in Asked({Price, Thanks})}
    \cup
  {[case |-> [question |-> Price, texts |-> Prices("39")], setup |-> s] :
     s \in {Deployment("dense", FALSE, "deterministic", "v2", 1, FALSE),
            Deployment("dense", TRUE, "model", "v2", 1, FALSE)}}
=============================================================================

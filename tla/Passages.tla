------------------------------- MODULE Passages -------------------------------
(***************************************************************************)
(* How a question's candidates become the passages the model sees and the  *)
(* citations the user sees (rag/reranker.py, rag/answerer.py).             *)
(*                                                                         *)
(* A candidate is its place in the embedding order, 1 being the nearest,   *)
(* and the score the encoder would give it.  One action is one turn of     *)
(* the decision loop.                                                      *)
(***************************************************************************)
EXTENDS Integers, FiniteSets, Selection

CONSTANTS
  RerankerEnabled,  \* reranker_enabled
  TopK,             \* retrieval_final_limit
  Floor,            \* reranker_min_score
  Scores,           \* the scores an encoder may give
  MaxCandidates     \* retrieval_candidate_limit

ASSUME PassagesAssumption ==
  /\ RerankerEnabled \in BOOLEAN
  /\ {TopK, MaxCandidates} \subseteq Nat \ {0}
  /\ Scores \subseteq Int /\ Floor \in Int

VARIABLES
  encoder,     \* _encoder and _unavailable: "unloaded", "loaded" or "unavailable"
  candidates,  \* candidates[i]: the encoder's score of candidate i
  ranked,      \* what rank() returned; index 0 is one that is out of range
  turn,        \* turns of the loop so far
  decisions,   \* the outcomes, best first
  passages,    \* the passages shown to the model, in order
  cited,       \* the numbers its answer cites
  shown,       \* the citations returned with the answer
  stage        \* "idle", "rerank", "decide", "context", "generate" or "answered"

rankVars == <<candidates, ranked, turn, decisions>>
answerVars == <<passages, cited, shown>>
passagesVars == <<encoder, rankVars, answerVars, stage>>

PassagesInit ==
  /\ encoder = "unloaded"
  /\ candidates = <<>> /\ ranked = <<>> /\ turn = 0 /\ decisions = <<>>
  /\ passages = <<>> /\ cited = {} /\ shown = <<>>
  /\ stage = "idle"

-------------------------------------------------------------------------------
Positions == 1 .. Len(candidates)
Decisions == [candidate : Positions, status : {"kept", "below_floor", "beyond_top_k"}]

\* warm_reranker, before the first request: a model that does not load is not tried
\* again.
WarmReranker ==
  /\ RerankerEnabled /\ encoder = "unloaded"
  /\ encoder' \in {"loaded", "unavailable"}
  /\ UNCHANGED <<rankVars, answerVars, stage>>

\* The hits of the search, verified.
Retrieve ==
  /\ stage = "idle"
  /\ RerankerEnabled => encoder # "unloaded"
  /\ \E n \in 0 .. MaxCandidates : candidates' \in [1 .. n -> Scores]
  /\ stage' = "rerank"
  /\ UNCHANGED <<encoder, ranked, turn, decisions, answerVars>>

\* Mutant: without the encoder every candidate is kept.
FallBackToAll ==
  decisions' = [i \in Positions |-> [candidate |-> i, status |-> "kept"]]

\* fallback: the embedding order.
FallBack ==
  decisions' = [i \in Positions |->
                  [candidate |-> i, status |-> IF i <= TopK THEN "kept" ELSE "beyond_top_k"]]

RankingSkipped ==
  /\ stage = "rerank"
  /\ ~RerankerEnabled \/ candidates = <<>> \/ encoder = "unavailable"
  /\ FallBack
  /\ stage' = "context"
  /\ UNCHANGED <<encoder, candidates, ranked, turn, answerVars>>

RankingFails ==
  /\ stage = "rerank" /\ encoder = "loaded" /\ candidates # <<>>
  /\ FallBack
  /\ stage' = "context"
  /\ UNCHANGED <<encoder, candidates, ranked, turn, answerVars>>

\* Orders of all candidates, best first.
BestFirst ==
  {p \in [Positions -> Positions] :
     /\ \A i, j \in Positions : i < j => p[i] # p[j] /\ candidates[p[i]] >= candidates[p[j]]}

\* The encoder scores every candidate; some entries may have lost their index.
Rank ==
  /\ stage = "rerank" /\ encoder = "loaded" /\ candidates # <<>>
  /\ \E p \in BestFirst : \E lost \in SUBSET Positions :
       ranked' = [i \in Positions |->
                    [index |-> IF i \in lost THEN 0 ELSE p[i], score |-> candidates[p[i]]]]
  /\ stage' = "decide"
  /\ UNCHANGED <<encoder, candidates, turn, decisions, answerVars>>

\* Mutant: the place in the ranking decides, lost entries included.
StatusByTurn(score) ==
  CASE score < Floor -> "below_floor"
    [] score >= Floor /\ turn < TopK -> "kept"
    [] OTHER -> "beyond_top_k"

\* By the place among the decisions so far.
StatusOf(score) ==
  CASE score < Floor -> "below_floor"
    [] score >= Floor /\ Len(decisions) < TopK -> "kept"
    [] OTHER -> "beyond_top_k"

Decide ==
  /\ stage = "decide" /\ turn < Len(ranked)
  /\ LET entry == ranked[turn + 1] IN
       decisions' =
         IF entry.index \in Positions
         THEN Append(decisions, [candidate |-> entry.index, status |-> StatusOf(entry.score)])
         ELSE decisions
  /\ turn' = turn + 1
  /\ UNCHANGED <<encoder, candidates, ranked, answerVars, stage>>

\* Not one index was usable: the fallback after all.
EndRanking ==
  /\ stage = "decide" /\ turn = Len(ranked)
  /\ IF decisions = <<>> THEN FallBack ELSE UNCHANGED decisions
  /\ stage' = "context"
  /\ UNCHANGED <<encoder, candidates, ranked, turn, answerVars>>

Kept == Selected(decisions, [candidate : Positions, status : {"kept"}])

\* build_context numbers the passages; without any the model is not asked.
BuildContext ==
  /\ stage = "context"
  /\ passages' = [i \in 1 .. Len(Kept) |-> Kept[i].candidate]
  /\ stage' = IF Kept = <<>> THEN "answered" ELSE "generate"
  /\ UNCHANGED <<encoder, rankVars, cited, shown>>

Citations == [i \in 1 .. Len(passages) |-> [index |-> i, candidate |-> passages[i]]]

\* Mutant: the citations are numbered as they are shown.
ShownRenumbered(numbers) ==
  LET of == Selected(Citations, [index : numbers, candidate : Positions])
  IN  IF of = <<>> THEN Citations ELSE [i \in 1 .. Len(of) |-> [of[i] EXCEPT !.index = i]]

\* Those the answer cites, or all of them if it cites none.
Shown(numbers) ==
  LET of == Selected(Citations, [index : numbers, candidate : Positions])
  IN  IF of = <<>> THEN Citations ELSE of

\* The model may cite any numbers, and some that no passage has.
Generate ==
  /\ stage = "generate"
  /\ cited' \in SUBSET (0 .. TopK + 1)
  /\ shown' = Shown(cited')
  /\ stage' = "answered"
  /\ UNCHANGED <<encoder, rankVars, passages>>

AnswerReturned ==
  /\ stage = "answered"
  /\ candidates' = <<>> /\ ranked' = <<>> /\ turn' = 0 /\ decisions' = <<>>
  /\ passages' = <<>> /\ cited' = {} /\ shown' = <<>>
  /\ stage' = "idle"
  /\ UNCHANGED encoder

PassagesNext ==
  \/ WarmReranker \/ Retrieve \/ RankingSkipped \/ RankingFails \/ Rank \/ Decide
  \/ EndRanking \/ BuildContext \/ Generate \/ AnswerReturned

PassagesSpec == PassagesInit /\ [][PassagesNext]_passagesVars

-------------------------------------------------------------------------------
(* Properties.                                                             *)

\* The values the variables take; the model is never shown more than TopK passages.
PassagesTypeOK ==
  /\ encoder \in {"unloaded", "loaded", "unavailable"}
  /\ candidates \in Seq(Scores) /\ Len(candidates) <= MaxCandidates
  /\ ranked \in Seq([index : 0 .. Len(candidates), score : Scores])
  /\ Len(ranked) \in {0, Len(candidates)}
  /\ turn \in 0 .. Len(ranked)
  /\ decisions \in Seq(Decisions)
  /\ passages \in Seq(Positions) /\ Len(passages) <= TopK
  /\ cited \subseteq 0 .. TopK + 1
  /\ shown \in Seq([index : 1 .. Len(passages), candidate : Positions])
  /\ stage \in {"idle", "rerank", "decide", "context", "generate", "answered"}

\* The candidates whose score can be told.
Usable == {ranked[i].index : i \in 1 .. Len(ranked)} \ {0}

Passing == {c \in Usable : candidates[c] >= Floor}

AtMost(n) == IF n < TopK THEN n ELSE TopK

\* "Kept = the top_k by score, minus any below the floor.  If the reranker does not
\* run, the incoming embedding order is kept instead" (reranker.py): whichever indices
\* the encoder loses, no passage gives way to one that scores less, and none is shown
\* that is below the floor while there are scores.
KeptAreBest ==
  stage \in {"generate", "answered"} =>
    LET shownToModel == {passages[i] : i \in 1 .. Len(passages)} IN
    IF Usable = {}
    THEN passages = [i \in 1 .. AtMost(Len(candidates)) |-> i]
    ELSE /\ shownToModel \subseteq Passing
         /\ Cardinality(shownToModel) = Len(passages)
         /\ Len(passages) = AtMost(Cardinality(Passing))
         /\ \A i \in 1 .. Len(passages) : \A c \in Passing :
              candidates[c] > candidates[passages[i]] =>
                \E j \in 1 .. i - 1 : passages[j] = c

\* A citation has the number under which the model saw its passage, and none that
\* the answer cites is left out: a reader who looks up [n] finds what the model read.
CitationsMatch ==
  stage = "answered" =>
    /\ \A i \in 1 .. Len(shown) : passages[shown[i].index] = shown[i].candidate
    /\ \A n \in cited \intersect 1 .. Len(passages) : \E i \in 1 .. Len(shown) : shown[i].index = n
    /\ passages # <<>> => shown # <<>>
===============================================================================

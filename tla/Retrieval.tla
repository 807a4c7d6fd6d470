------------------------------ MODULE Retrieval ------------------------------
(***************************************************************************)
(* A search of the knowledge base (src/vector_db/postgresql_vector_db.ts,  *)
(* search(); src/tools/vector_tool.ts): the nearest chunks and those that  *)
(* contain the words are fetched, more of both than are wanted, then       *)
(* ranked, cut at a floor and at a margin below the best, and limited.     *)
(***************************************************************************)
EXTENDS Integers, FiniteSets

CONSTANTS
  KbChunks, Scores,   \* chunks and how similar they may be
  MinScore, KeywordFloor, KeywordBonus, RelativeMargin, Limit, OverFetch

ASSUME RetrievalAssumption ==
  /\ IsFiniteSet(KbChunks) /\ Scores \subseteq Nat /\ Limit \in Nat \ {0} /\ OverFetch \in Nat \ {0}
  /\ MinScore \in Nat /\ KeywordBonus \in Nat /\ RelativeMargin \in Nat
  /\ KeywordFloor \in 0 .. MinScore    \* 0.75 * minScore

VARIABLES
  table,    \* each chunk: how similar it is, and whether it has the words
  found     \* what search() returned, "none" before

searchVars == <<table, found>>

Candidates == Limit * OverFetch    \* max(limit * 4, 20)

\* The n first by an order that leaves ties open: any choice of them.
FirstOf(n, S, before(_, _)) ==
  {T \in SUBSET S : /\ Cardinality(T) = IF Cardinality(S) < n THEN Cardinality(S) ELSE n
                    /\ \A c \in T, d \in S \ T : ~before(d, c)}

Closer(c, d) == table[c].score > table[d].score
Rank(c) == table[c].score + IF table[c].hit THEN KeywordBonus ELSE 0
Better(c, d) == Rank(c) > Rank(d)
AboveFloor(c) ==
  \/ table[c].score >= MinScore
  \/ table[c].hit /\ table[c].score >= KeywordFloor

\* What the rows in R make of the answer.
Ranked(R) ==
  FirstOf(Limit, {c \in R : AboveFloor(c) /\ \A d \in R : Rank(c) >= Rank(d) - RelativeMargin}, Better)

SearchInit ==
  /\ table \in [KbChunks -> [score : Scores, hit : BOOLEAN]]
  /\ found = {"none"}

\* Faulty variant, for mutation checks: no more is fetched than is wanted.
SearchNoMore ==
  /\ found = {"none"} /\ UNCHANGED table
  /\ \E vec \in FirstOf(Limit, KbChunks, Closer) : found' \in Ranked(vec)

\* The full-text order of the hits has nothing to do with their similarity.
Search ==
  /\ found = {"none"} /\ UNCHANGED table
  /\ \E vec \in FirstOf(Candidates, KbChunks, Closer),
        kw \in FirstOf(Candidates, {c \in KbChunks : table[c].hit}, LAMBDA c, d : FALSE) :
       found' \in Ranked(vec \union kw)

SearchSpec == SearchInit /\ [][Search]_searchVars

-----------------------------------------------------------------------------
\* Fetching only candidates loses nothing: unless more chunks contain the
\* words than are fetched, the answer is what ranking every chunk would give.
SearchIsExact ==
  found # {"none"} /\ Cardinality({c \in KbChunks : table[c].hit}) <= Candidates
    => found \in Ranked(KbChunks)
=============================================================================

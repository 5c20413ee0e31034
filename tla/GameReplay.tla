----------------------------- MODULE GameReplay -----------------------------
(***************************************************************************)
(* Canonical games as the index builders and the queries replay them: a    *)
(* line of encoded moves from the starting position, a result and two      *)
(* optional ratings.  A position is its Zobrist hash, a natural number;    *)
(* the rules of chess are the parameter Apply.                             *)
(***************************************************************************)
EXTENDS Integers, Sequences, FiniteSets, SequencesExt, FiniteSetsExt

CONSTANTS Start,          \* hash of motif::chess::board {}
          Apply(_, _)     \* hash after a legal encoded move

VARIABLE library          \* canonical games: id -> the columns of its row

(* An absent rating; parse_elo() stores no negative one. *)
NoElo == -1

(* Boards of a line, indexed by ply. *)
Boards(moves) ==
    LET at[ply \in 0..Len(moves)] ==
            IF ply = 0 THEN Start ELSE Apply(at[ply - 1], moves[ply])
    IN  at

(* result_code()/map_result(): draws and unknown results are both 0. *)
ResultCode(result) == CASE result = "1-0" -> 1
                        [] result = "0-1" -> -1
                        [] OTHER -> 0

(* The distinct positions a game visits. *)
Visited(moves) == {Boards(moves)[ply] : ply \in 0..Len(moves)}

(* Lexicographic order of two tuples of numbers of one length. *)
LexLess(a, b) ==
    \E i \in DOMAIN a : a[i] < b[i] /\ \A j \in 1..(i - 1) : a[j] = b[j]

(* The members of a finite set of numbers from the least. *)
Ascending(S) ==
    [k \in 1..Cardinality(S) |-> CHOOSE x \in S : Cardinality({y \in S : y < x}) = k - 1]

(* Raw records, sorted by all their fields; equal ones are one. *)
Itself(item) == item
KeepFirst(a, b) == a
RecordSort == INSTANCE ExternalSort WITH Key <- Itself, Less <- LexLess, Combine <- KeepFirst

(* The result and rating sums a game contributes to an aggregate; ratings  *)
(* count when present, the weighted score needs both.  avg_elo is doubled. *)
Contribution(code, white, black) ==
    LET both == white # NoElo /\ black # NoElo
    IN  [frequency |-> 1,
         white_wins |-> IF code = 1 THEN 1 ELSE 0,
         draws |-> IF code = 0 THEN 1 ELSE 0,
         black_wins |-> IF code = -1 THEN 1 ELSE 0,
         white_elo_sum |-> IF white # NoElo THEN white ELSE 0,
         white_elo_count |-> IF white # NoElo THEN 1 ELSE 0,
         black_elo_sum |-> IF black # NoElo THEN black ELSE 0,
         black_elo_count |-> IF black # NoElo THEN 1 ELSE 0,
         weighted |-> IF both THEN code * (white + black) ELSE 0,
         weight |-> IF both THEN white + black ELSE 0]

NoContribution == [field \in DOMAIN Contribution(0, 0, 0) |-> 0]
SumContributions(a, b) == [field \in DOMAIN a |-> a[field] + b[field]]
=============================================================================

------------------------------ MODULE Verifier ------------------------------
(***************************************************************************)
(* The verifier package: every trajectory is scored by a model, criterion  *)
(* by criterion and several times over, a round-robin tournament selects   *)
(* one, and a weighted sum of its scores is the reward.                    *)
(*                                                                         *)
(* A score in [0, 1] is an integer in 0..Unit; a mean is kept as the sum   *)
(* it is computed from, which orders the trajectories in the same way.     *)
(***************************************************************************)
EXTENDS Integers, FiniteSets, Sequences, SequencesExt

CONSTANTS
    NumTrajectories, NumCriteria, Repeats,
    Granularity,    \* number of score tokens
    Unit,           \* the score 1.0
    Responses,      \* what the model may answer
    NoAnswer,       \* no litellm, no logprobs, or an exception
    Keys,           \* the keys of the weights, in their order
    KeyWeight,      \* weight of a key, per cent
    Mentions        \* the keys that occur in the text of a criterion

Trajectories == 1..NumTrajectories
Criteria == 1..NumCriteria
Outcomes == Responses \cup {NoAnswer}

(***************************************************************************)
(* One verification.  A letter is its place in A, B, C...  A response is a *)
(* sequence of positions, each with the probability of some letters, in    *)
(* parts; a logprob of minus infinity is no part.                          *)
(***************************************************************************)
ScoreTokens == 1..Granularity
TokenWeight(letter) ==
    IF letter \in ScoreTokens THEN ((letter - 1) * Unit) \div (Granularity - 1) ELSE 0

\* A later position overwrites the letters of an earlier one.
Positions(response, letter) == {i \in DOMAIN response : letter \in DOMAIN response[i]}
TokenLogprobs(response) ==
    [letter \in {l \in ScoreTokens : Positions(response, l) # {}} |->
        response[Max(Positions(response, letter))][letter]]

\* The fallback has the letters B, C and D whatever the granularity.
MockLogprobs == [letter \in 2..4 |-> <<0, 2, 5, 3>>[letter]]

Answered(outcome) == outcome # NoAnswer /\ DOMAIN TokenLogprobs(outcome) # {}
CallModel(outcome) == IF Answered(outcome) THEN TokenLogprobs(outcome) ELSE MockLogprobs

Mass(logprobs) == SumFunction(logprobs)
Weighted(logprobs) == SumFunction([l \in DOMAIN logprobs |-> logprobs[l] * TokenWeight(l)])

\* Mutant of ExpectedValue: ten parts are taken for the whole.
ExpectedValueOfTen(logprobs) == Weighted(logprobs) \div 10

ExpectedValue(logprobs) ==
    IF Mass(logprobs) = 0 THEN 0 ELSE Weighted(logprobs) \div Mass(logprobs)

Score(outcome) == ExpectedValue(CallModel(outcome))

ASSUME VerifierAssumption ==
    /\ NumTrajectories \in Nat \ {0}
    /\ NumCriteria \in Nat
    /\ Repeats \in Nat
    /\ Granularity \in 2..10
    /\ Unit \in Nat
    /\ \A response \in Responses :
          /\ Len(response) \in Nat /\ DOMAIN response = 1..Len(response)
          /\ \A i \in DOMAIN response : \A l \in DOMAIN response[i] : response[i][l] \in Nat
    /\ Len(Keys) \in Nat /\ DOMAIN Keys = 1..Len(Keys)
    /\ \A i \in DOMAIN Keys : KeyWeight[Keys[i]] \in Nat

VARIABLES
    calls,      \* verifications made, per trajectory and criterion
    criterion,  \* their scores, per trajectory and criterion
    overall,    \* and per trajectory
    pairs,      \* pairs of trajectories still to be compared
    wins,
    best        \* best_idx, or 0

verifierVars == <<calls, criterion, overall, pairs, wins, best>>

AllPairs == {p \in Trajectories \X Trajectories : p[1] < p[2]}

VerifierInit ==
    /\ calls = [t \in Trajectories |-> [c \in Criteria |-> 0]]
    /\ criterion = [t \in Trajectories |-> [c \in Criteria |-> 0]]
    /\ overall = [t \in Trajectories |-> 0]
    /\ pairs = AllPairs
    /\ wins = [t \in Trajectories |-> 0]
    /\ best = 0

(***************************************************************************)
(* evaluate, for one trajectory after another.                             *)
(***************************************************************************)
InOrder(t, c) ==
    /\ calls[t][c] < Repeats
    /\ \A u \in Trajectories, d \in Criteria :
          u < t \/ (u = t /\ d < c) => calls[u][d] = Repeats

Verify(t, c) ==
    /\ InOrder(t, c)
    /\ \E outcome \in Outcomes :
          /\ criterion' = [criterion EXCEPT ![t][c] = @ + Score(outcome)]
          /\ overall' = [overall EXCEPT ![t] = @ + Score(outcome)]
    /\ calls' = [calls EXCEPT ![t][c] = @ + 1]
    /\ UNCHANGED <<pairs, wins, best>>

Evaluated == \A t \in Trajectories, c \in Criteria : calls[t][c] = Repeats

(***************************************************************************)
(* round_robin_select.  A pair adds to the counts whatever was compared    *)
(* before, so the pairs are taken in any order.                            *)
(***************************************************************************)
\* Mutant of Win: only the first of the two can win.
WinOfFirst(i, j) == IF overall[i] > overall[j] THEN {i} ELSE {}

Win(i, j) ==
    IF overall[i] > overall[j] THEN {i}
    ELSE IF overall[j] > overall[i] THEN {j}
    ELSE {}

Compare(i, j) ==
    /\ Evaluated
    /\ <<i, j>> \in pairs
    /\ pairs' = pairs \ {<<i, j>>}
    /\ wins' = [t \in Trajectories |-> IF t \in Win(i, j) THEN wins[t] + 1 ELSE wins[t]]
    /\ UNCHANGED <<calls, criterion, overall, best>>

Argmax ==
    CHOOSE t \in Trajectories :
        \A u \in Trajectories : wins[u] < wins[t] \/ (wins[u] = wins[t] /\ t <= u)

Select ==
    /\ Evaluated
    /\ pairs = {}
    /\ best = 0
    /\ best' = Argmax
    /\ UNCHANGED <<calls, criterion, overall, pairs, wins>>

VerifierNext ==
    \/ \E t \in Trajectories, c \in Criteria : Verify(t, c)
    \/ \E i \in Trajectories, j \in Trajectories : Compare(i, j)
    \/ Select

VerifierSpec == VerifierInit /\ [][VerifierNext]_verifierVars

(***************************************************************************)
(* The reward of a trajectory.                                             *)
(***************************************************************************)
Weight(c) ==
    LET found == {i \in DOMAIN Keys : Keys[i] \in Mentions[c]}
    IN  IF found = {} THEN 25 ELSE KeyWeight[Keys[Min(found)]]

Reward(t) == SumFunction([c \in Criteria |-> Weight(c) * criterion[t][c]])

(***************************************************************************)
(* Properties.                                                             *)
(***************************************************************************)

\* Types and ranges: a score is at most 1.0 per verification, although the letters of
\* several positions are put together.
VerifierTypeOK ==
    /\ calls \in [Trajectories -> [Criteria -> 0..Repeats]]
    /\ criterion \in [Trajectories -> [Criteria -> 0..Repeats * Unit]]
    /\ overall \in [Trajectories -> 0..NumCriteria * Repeats * Unit]
    /\ pairs \subseteq Trajectories \X Trajectories
    /\ wins \in [Trajectories -> 0..NumTrajectories]
    /\ best \in 0..NumTrajectories

\* The trajectory with the most wins has the highest overall score, though a tie counts
\* for neither side and the margins of the wins do not count.
WinnerUnbeaten ==
    best # 0 => \A t \in Trajectories : overall[t] <= overall[best]

\* select_best takes the unweighted mean and the training reward is weighted: the
\* selected trajectory can have a lower reward than another one, but by no more than the
\* weights differ from the least of them.
LeastWeight == Min({Weight(c) : c \in Criteria})
WinnerNearReward ==
    best # 0 => \A t \in Trajectories :
        Reward(t) - Reward(best) <=
            SumFunction([c \in Criteria |-> (Weight(c) - LeastWeight) * (Repeats * Unit)])
=============================================================================

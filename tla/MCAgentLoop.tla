----------------------------- MODULE MCAgentLoop -----------------------------
(***************************************************************************)
(* AgentLoop for TLC: real programs of the fixture, with the relevance,    *)
(* the threat model, the reductions and the verdicts Fixture computes for  *)
(* them.  On BOOM every answer of the validator is possible every time.    *)
(***************************************************************************)
EXTENDS AgentLoop, Fixture

CONSTANT BenchmarkId   \* the benchmark the loop runs

Target == CHOOSE b \in Benchmarks : b.id = BenchmarkId

\* The minimal witness of the benchmark.
Exploit ==
  CASE BenchmarkId = "privilege-bypass" -> <<"enter_user", "load_secret">>
    [] BenchmarkId = "transient-cache" ->
         <<"train", "enter_user", "load_secret", "encode", "probe">>
    [] OTHER -> <<"enter_user", "load_secret", "fence", "probe">>

\* Another relevant program: for privilege-bypass one the baseline runs clean.
Rival ==
  CASE BenchmarkId = "privilege-bypass" -> <<"enter_user", "train", "load_secret">>
    [] BenchmarkId = "transient-cache" ->
         <<"enter_user", "train", "load_secret", "encode", "probe">>
    [] OTHER -> <<"enter_user", "load_secret", "probe">>

\* Beside them the witness padded with a NOP, a probed load (irrelevant for
\* transient-cache) and a candidate outside the threat model.
MCPrograms == { Exploit, Rival, <<"nop">> \o Exploit,
                <<"enter_user", "load_secret", "probe">>, <<"load_secret", "enter_user">> }

MCEssence == [p \in MCPrograms |-> WithoutNops(p)]
MCRelevant == {p \in MCPrograms : RelevantChallenge(p, Target)}
MCOutside == {p \in MCPrograms : OutsideUser(p)}

\* q is p after deletions: some increasing choice of p's operations spells it.
Deletion(q, p) ==
  \E at \in [DOMAIN q -> DOMAIN p] :
    \A k \in DOMAIN q : q[k] = p[at[k]] /\ \A j \in 1..(k - 1) : at[j] < at[k]
MCReductions == [p \in MCPrograms |-> {q \in MCPrograms : Deletion(q, p)}]

Answers == {<<p, v, Verdict(p, Target.invariant, v)>> : p \in MCPrograms, v \in Variants}
MCOutcomes ==
  [p \in MCPrograms |-> [v \in Variants |->
     IF p \in MCOutside THEN {"inconclusive"}
     ELSE {status \in Statuses : Boom \/ status = "inconclusive" \/ <<p, v, status>> \in Answers}]]
MCBug == Target.bug
=============================================================================

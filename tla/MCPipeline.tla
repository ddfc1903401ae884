----------------------------- MODULE MCPipeline -----------------------------
(***************************************************************************)
(* Small deployments of the pipeline: the two compilers of config.yml,     *)
(* one of them with two replicas (docker-compose_diff_fuz.yml runs three). *)
(***************************************************************************)
EXTENDS Pipeline, TLC

CONSTANTS venom, default, v1, v2, d1, q1, q2, b1, b2

MCCompilerOf == [r \in {v1, v2, d1} |-> IF r = d1 THEN default ELSE venom]
\* One replica of each compiler.
MCCompilerOfPair == [r \in {v1, d1} |-> IF r = d1 THEN default ELSE venom]

MCQueueOf == [c \in {venom, default} |-> IF c = venom THEN q1 ELSE q2]

\* One broker for each queue key (docker/config.yml).
MCDedicated == [q \in {q1, q2} |-> IF q = q1 THEN b1 ELSE b2]

\* Contracts are interchangeable: nothing orders or compares their ids.
Symmetry == Permutations(Gen)

=============================================================================

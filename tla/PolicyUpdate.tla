---------------------------- MODULE PolicyUpdate ----------------------------
(***************************************************************************)
(* What a training step does with its batch on the GPUs: the driver        *)
(* reorders the rows so that each rank gets about the same work            *)
(* (_balance_batch), has the ranks compute the log-probabilities, joins    *)
(* them to the batch, and has the ranks update the policy                  *)
(* (bmc_ray_trainer.py; DataParallelPPOActor).                             *)
(*                                                                         *)
(* Each rank divides its rows into micro-batches by itself, but the ranks  *)
(* meet in collective operations: the all_reduce of the number of          *)
(* micro-batches, each forward pass (FSDP gathers the parameters), each    *)
(* optimizer step.  A collective is one action of all ranks; a rank whose  *)
(* next collective is another one waits for ever.                          *)
(*                                                                         *)
(* Abstracted: tensors.  A log-probability is the number of the row it was *)
(* computed from.  One GPU is one rank (no sequence or tensor parallelism).*)
(* Advantages are computed per uid and stay with their row.                *)
(***************************************************************************)
EXTENDS SeqlenBalancing

CONSTANTS
    RowCounts,      \* the numbers of rows in a batch
    Worlds,         \* the numbers of ranks
    RowLengths,     \* the numbers of tokens a row may have
    MaxTokenLen,    \* ppo_max_token_len_per_gpu, log_prob_max_token_len_per_gpu
    MiniBatchSize,  \* ppo_mini_batch_size, in rows of a rank
    MicroBatchSize, \* ppo_micro_batch_size_per_gpu, without dynamic batches
    PpoEpochs       \* ppo_epochs

\* A rank gets the same number of rows as any other (DataProto.chunk asserts
\* it), and max_token_len is at least the width of a row.
ASSUME UpdateAssumption ==
    /\ RowCounts \subseteq Nat \ {0}
    /\ Worlds \subseteq Nat \ {0}
    /\ \A n \in RowCounts, w \in Worlds : n % w = 0
    /\ MaxTokenLen \in Nat \ {0}
    /\ \A l \in RowLengths : l \in 1..MaxTokenLen
    /\ MiniBatchSize \in Nat \ {0}
    /\ MicroBatchSize \in Nat \ {0}
    /\ PpoEpochs \in Nat \ {0}

VARIABLES
    tokens,       \* tokens[r]: the length of row r, which never changes
    world,        \* the number of ranks, likewise
    balanceBatch, \* trainer.balance_batch, likewise
    dynamicBsz,   \* use_dynamic_bsz, likewise
    phase,        \* of the step: "balance", "log_prob", "update", "updated",
                  \* "failed"
    rows,         \* the batch: the rows in their order
    oldLogProbs,  \* its column old_log_probs
    share,        \* share[w]: the rows and log-probabilities of rank w
    at,           \* where rank w is: "prepare", "reduce", "divide", "forward",
                  \* "step", "answered"
    turn,         \* the number of its mini-batch, over all epochs
    count,        \* its num_micro_batches
    micros,       \* its micro-batches, as lists of places
    done,         \* how many of them it has been through
    outputs,      \* its log-probabilities, in the order of the micro-batches
    grads,        \* what its gradient is made of since zero_grad
    uses          \* history: how many calls of _optimizer_step a row was part of

step == <<tokens, world, balanceBatch, dynamicBsz>>
driver == <<phase, rows, oldLogProbs, share>>
work == <<count, micros, done, outputs, grads>>
updateVars == <<step, driver, at, turn, work, uses>>

Ranks == 1..world
AllRanks(x) == [w \in Ranks |-> x]

UpdateInit ==
    /\ \E n \in RowCounts : tokens \in [1..n -> RowLengths]
    /\ world \in Worlds
    /\ balanceBatch \in BOOLEAN
    /\ dynamicBsz \in BOOLEAN
    /\ phase = "balance"
    /\ rows = [i \in DOMAIN tokens |-> i]
    /\ oldLogProbs = <<>>
    /\ share = AllRanks(<<>>)
    /\ at = AllRanks("answered")
    /\ turn = AllRanks(1)
    /\ count = AllRanks(0)
    /\ micros = AllRanks(<<>>)
    /\ done = AllRanks(0)
    /\ outputs = AllRanks(<<>>)
    /\ grads = AllRanks(<<>>)
    /\ uses = [r \in DOMAIN tokens |-> 0]

TokensOf(entries) == [i \in DOMAIN entries |-> tokens[entries[i].row]]
WorkOf(entries) == [i \in DOMAIN entries |-> Workload(TokensOf(entries)[i])]

\* DataProto.chunk: equal parts of the batch, in order.
Part(s, w) ==
    LET size == Len(s) \div world
    IN  SubSeq(s, (w - 1) * size + 1, w * size)

\* The driver deals out the batch, and every rank starts.
Deal(logProbs) ==
    LET entries == [i \in DOMAIN rows' |-> [row |-> rows'[i], logProb |-> logProbs[i]]]
    IN  /\ share' = [w \in Ranks |-> Part(entries, w)]
        /\ at' = AllRanks("prepare")
        /\ turn' = AllRanks(1)

\* The order of the rows of a rank: the light ones at both ends.
Ends(s) == EvenPlaces(s) \o Reverse(OddPlaces(s))

\* _balance_batch: the rows of one rank after those of another.
Rebalanced ==
    LET load == [i \in DOMAIN rows |-> Workload(tokens[rows[i]])]
        parts == BalancedPartitions(load, world, TRUE)
        order == FlattenSeq([w \in DOMAIN parts |-> Ends(ByWork(load, parts[w]))])
    IN  [i \in DOMAIN order |-> rows[order[i]]]

\* The driver reorders the batch, and calls compute_log_prob.
Balance ==
    /\ phase = "balance"
    /\ rows' = IF balanceBatch THEN Rebalanced ELSE rows
    /\ phase' = "log_prob"
    /\ Deal([i \in DOMAIN rows |-> 0])
    /\ UNCHANGED <<step, oldLogProbs, work, uses>>

(***************************************************************************)
(* A rank.                                                                 *)
(***************************************************************************)
MiniBatches(w) == CeilDiv(Len(share[w]), MiniBatchSize)

\* data.split: the k-th piece of a list, the last may be short.
Piece(s, size, k) ==
    SubSeq(s, (k - 1) * size + 1, IF k * size < Len(s) THEN k * size ELSE Len(s))

\* What the rank works on: all its rows, or a mini-batch.
Current(w) ==
    IF phase = "log_prob" THEN share[w]
    ELSE Piece(share[w], MiniBatchSize, ((turn[w] - 1) % MiniBatches(w)) + 1)

\* The places 1 .. n in pieces of the fixed size.
FixedMicros(n) ==
    LET places == [i \in 1..n |-> i]
    IN  [k \in 1..CeilDiv(n, MicroBatchSize) |-> Piece(places, MicroBatchSize, k)]

\* Before a (mini-)batch: the rank counts the micro-batches it needs, or splits
\* it into pieces of a fixed size; zero_grad.
Prepare(w) ==
    /\ at[w] = "prepare"
    /\ IF dynamicBsz
       THEN /\ count' = [count EXCEPT ![w] =
                            MicroBatchesFor(TokensOf(Current(w)), MaxTokenLen)]
            /\ at' = [at EXCEPT ![w] = "reduce"]
            /\ UNCHANGED micros
       ELSE /\ micros' = [micros EXCEPT ![w] = FixedMicros(Len(Current(w)))]
            /\ at' = [at EXCEPT ![w] = "forward"]
            /\ UNCHANGED count
    /\ done' = [done EXCEPT ![w] = 0]
    /\ outputs' = [outputs EXCEPT ![w] = <<>>]
    /\ grads' = [grads EXCEPT ![w] = <<>>]
    /\ UNCHANGED <<step, driver, turn, uses>>

\* Faulty: same_micro_num_in_dp is off.
OwnCounts == count

\* The largest count.
AgreedCounts ==
    AllRanks(CHOOSE m \in {count[w] : w \in Ranks} : \A w \in Ranks : count[w] <= m)

\* dist.all_reduce(num_micro_batches, op=MAX)
AllReduce ==
    /\ at = AllRanks("reduce")
    /\ count' = AgreedCounts
    /\ at' = AllRanks("divide")
    /\ UNCHANGED <<step, driver, turn, micros, done, outputs, grads, uses>>

\* The rest of rearrange_micro_batches, whose assertions end the step.
Divide(w) ==
    /\ at[w] = "divide"
    /\ LET load == WorkOf(Current(w))
           parts == BalancedPartitions(load, count[w], FALSE)
       IN  IF CanDivide(load, count[w], FALSE) /\ Divides(load, count[w], FALSE, parts)
           THEN /\ micros' = [micros EXCEPT ![w] = MicroBatchOrder(load, parts)]
                /\ at' = [at EXCEPT ![w] = "forward"]
                /\ UNCHANGED phase
           ELSE phase' = "failed" /\ UNCHANGED <<micros, at>>
    /\ UNCHANGED <<step, rows, oldLogProbs, share, turn, count, done, outputs,
                   grads, uses>>

\* The entries of the next micro-batch of a rank.
NextMicro(w) ==
    LET places == micros[w][done[w] + 1]
    IN  [i \in DOMAIN places |-> Current(w)[places[i]]]

\* All ranks go through their next micro-batch: forward, and backward if they
\* update the policy.
Forward ==
    /\ at = AllRanks("forward")
    /\ \A w \in Ranks : done[w] < Len(micros[w])
    /\ done' = [w \in Ranks |-> done[w] + 1]
    /\ IF phase = "log_prob"
       THEN /\ outputs' = [w \in Ranks |-> outputs[w] \o
                  [i \in DOMAIN NextMicro(w) |-> NextMicro(w)[i].row]]
            /\ UNCHANGED grads
       ELSE /\ grads' = [w \in Ranks |-> grads[w] \o NextMicro(w)]
            /\ UNCHANGED outputs
    /\ UNCHANGED <<step, driver, at, turn, count, micros, uses>>

Through(w) == at[w] = "forward" /\ done[w] = Len(micros[w])

\* compute_log_prob returns: with dynamic batches in the order of the rows.
AnswerLogProbs(w) ==
    /\ phase = "log_prob"
    /\ Through(w)
    /\ outputs' = [outputs EXCEPT ![w] = IF dynamicBsz THEN Restored(@, micros[w]) ELSE @]
    /\ at' = [at EXCEPT ![w] = "answered"]
    /\ UNCHANGED <<step, driver, turn, count, micros, done, grads, uses>>

\* The rank is through the micro-batches of its mini-batch.
EndMiniBatch(w) ==
    /\ phase = "update"
    /\ Through(w)
    /\ at' = [at EXCEPT ![w] = "step"]
    /\ UNCHANGED <<step, driver, turn, work, uses>>

UsedBy(w, r) == Cardinality({i \in DOMAIN grads[w] : grads[w][i].row = r})

\* Faulty: the last mini-batch is left out.
IsLastTurnEarly(w) == turn[w] + 1 >= PpoEpochs * MiniBatches(w)

IsLastTurn(w) == turn[w] = PpoEpochs * MiniBatches(w)

\* _optimizer_step: the norm of the gradient is taken over all ranks.  Where it
\* is not finite the gradient is dropped; a row has had its turn all the same.
OptimizerStep ==
    /\ at = AllRanks("step")
    /\ uses' = [r \in DOMAIN uses |->
                   uses[r] + Cardinality({w \in Ranks : UsedBy(w, r) > 0})]
    /\ at' = [w \in Ranks |-> IF IsLastTurn(w) THEN "answered" ELSE "prepare"]
    /\ turn' = [w \in Ranks |-> turn[w] + 1]
    /\ UNCHANGED <<step, driver, work>>

(***************************************************************************)
(* The driver goes on when all ranks have answered.                        *)
(***************************************************************************)

\* batch.union(old_log_prob), and the call of update_actor.
Union ==
    /\ phase = "log_prob"
    /\ at = AllRanks("answered")
    /\ oldLogProbs' = FlattenSeq([w \in Ranks |-> outputs[w]])
    /\ phase' = "update"
    /\ rows' = rows
    /\ Deal(oldLogProbs')
    /\ UNCHANGED <<step, work, uses>>

Updated ==
    /\ phase = "update"
    /\ at = AllRanks("answered")
    /\ phase' = "updated"
    /\ UNCHANGED <<step, rows, oldLogProbs, share, at, turn, work, uses>>

RankStep(w) == Prepare(w) \/ Divide(w) \/ AnswerLogProbs(w) \/ EndMiniBatch(w)

UpdateNext ==
    /\ phase # "failed"
    /\ \/ Balance \/ Union \/ Updated
       \/ \E w \in Ranks : RankStep(w)
       \/ AllReduce \/ Forward \/ OptimizerStep

UpdateSpec == UpdateInit /\ [][UpdateNext]_updateVars
-----------------------------------------------------------------------------
(***************************************************************************)
(* Properties.                                                             *)
(***************************************************************************)
Entries == [row : DOMAIN tokens, logProb : {0} \cup DOMAIN tokens]

\* Every variable holds a value of its kind; the batch is always a permutation
\* of its rows.
UpdateTypeOK ==
    /\ phase \in {"balance", "log_prob", "update", "updated", "failed"}
    /\ rows \in [DOMAIN tokens -> DOMAIN tokens]
    /\ {rows[i] : i \in DOMAIN rows} = DOMAIN tokens
    /\ share \in [Ranks -> Seq(Entries)]
    /\ at \in [Ranks -> {"prepare", "reduce", "divide", "forward", "step", "answered"}]
    /\ turn \in [Ranks -> Nat]
    /\ count \in [Ranks -> Nat]
    /\ done \in [Ranks -> Nat]
    /\ outputs \in [Ranks -> Seq(DOMAIN tokens)]
    /\ grads \in [Ranks -> Seq(Entries)]
    /\ uses \in [DOMAIN tokens -> 0..PpoEpochs]

(***************************************************************************)
(* Every row gets its own log-probability, although the batch was          *)
(* reordered, dealt out, cut into micro-batches by each rank in an order   *)
(* of its own, and put together again.                                     *)
(***************************************************************************)
LogProbsInPlace == phase \in {"update", "updated"} => oldLogProbs = rows

(***************************************************************************)
(* When a rank is ready for an optimizer step, its gradient is made of its *)
(* mini-batch: each row once, with its own log-probability.  In the end    *)
(* every row was part of one _optimizer_step of each epoch.                *)
(***************************************************************************)
WholeMiniBatches ==
    /\ \A w \in Ranks : at[w] = "step" =>
           /\ Len(grads[w]) = Len(Current(w))
           /\ ToSet(grads[w]) = ToSet(Current(w))
           /\ \A i \in DOMAIN grads[w] : grads[w][i].logProb = grads[w][i].row
    /\ phase = "updated" => \A r \in DOMAIN tokens : uses[r] = PpoEpochs

(***************************************************************************)
(* With balance_batch, the work of two ranks differs by no more than that  *)
(* of two rows that the order by work puts side by side (in a group of as  *)
(* many rows as there are ranks): the differences do not add up.           *)
(***************************************************************************)
LoadOf(w) == SumFunction(WorkOf(share[w]))
RanksBalanced ==
    LET load == [r \in DOMAIN tokens |-> Workload(tokens[r])]
        sorted == ByWork(load, [r \in DOMAIN tokens |-> r])
        Apart(o) == load[sorted[world * o + world]] - load[sorted[world * o + 1]]
    IN  balanceBatch /\ phase # "balance" =>
            \A v, w \in Ranks : \E o \in 0..(Len(sorted) \div world) - 1 :
                LoadOf(v) - LoadOf(w) <= Apart(o)

(***************************************************************************)
(* Until the step ends, somebody can go on: no assertion fails, and a rank *)
(* that waits in a collective waits for a rank that is still on its way    *)
(* there.                                                                  *)
(***************************************************************************)
SomebodyGoesOn ==
    \/ phase \in {"balance", "updated"}
    \/ /\ phase # "failed"
       /\ \/ \E w \in Ranks : at[w] \in {"prepare", "divide"} \/ Through(w)
          \/ \E place \in {"reduce", "forward", "step", "answered"} :
                 at = AllRanks(place)
=============================================================================

------------------------------ MODULE AgentLoop ------------------------------
(***************************************************************************)
(* AgentLoopManager.generate_sequences, which the trainers call for their  *)
(* rollouts when rollout.mode is async: wake the inference servers, deal   *)
(* the batch out to the agent loop workers, gather their outputs and put   *)
(* the servers to sleep again.  Within a worker every sample is a          *)
(* coroutine of its own, a ToolAgentLoop: generate, then call tools or ask *)
(* the interaction for the user's answer, and generate again.  The samples *)
(* of a worker share an AsyncLLMServerManager, which chooses the server    *)
(* of each request.                                                        *)
(*                                                                         *)
(* A coroutine runs undisturbed up to its next await, so the actions of a  *)
(* sample are its stretches between two awaits.  SingleTurnAgentLoop is    *)
(* the sample that calls no tool and has no interaction.                   *)
(*                                                                         *)
(* A server refuses a request that leaves it no room for a token.  Nothing *)
(* catches the exception, so it ends the call and the program.             *)
(*                                                                         *)
(* Abstracted: a token is the name of who wrote it.  A version of the      *)
(* weights is the number of updates it has seen.                           *)
(***************************************************************************)
EXTENDS Integers, Sequences, FiniteSets, SequencesExt

CONSTANTS
    NumServers,      \* num_replicas; the servers are numbered by their hash
    BatchSize,       \* the samples of a call
    WorkerCounts,    \* agent.num_workers, a set to choose from
    PromptLength,    \* rollout.prompt_length; the dataset drops longer prompts
    ResponseLength,  \* rollout.response_length
    TurnLimits,      \* max_user_turns and max_assistant_turns: 0 is no limit
    MaxCacheSize,    \* max_cache_size of request_id_to_server
    MaxTokens,       \* bound on the tokens of a turn of the assistant
    MaxReply,        \* bound on the tokens of any other turn
    MaxCalls         \* bound on the calls of generate_sequences

ASSUME AgentAssumption ==
    /\ NumServers \in Nat \ {0}
    /\ BatchSize \in Nat \ {0}
    /\ WorkerCounts \subseteq {n \in Nat \ {0} : BatchSize % n = 0}
    /\ PromptLength \in Nat \ {0} /\ ResponseLength \in Nat \ {0}
    /\ TurnLimits \subseteq Nat
    /\ MaxCacheSize \in Nat /\ MaxCacheSize >= BatchSize
    /\ MaxTokens \in Nat \ {0} /\ MaxReply \in Nat \ {0}
    /\ MaxCalls \in Nat

Servers == 1..NumServers
Samples == 1..BatchSize
Nowhere == 0

VARIABLES
    config,    \* the options, which never change
    phase,     \* of the manager: "idle", "wake", "run", "sleep", "failed"
    call,      \* the calls of generate_sequences so far
    policy,    \* the version of the actor's weights
    tasks,     \* _run_all: the replicas that have not answered yet
    awake,     \* the servers whose engine holds weights and a KV cache
    loaded,    \* loaded[s]: the version of the weights in the engine of s
    cached,    \* cached[s]: the versions that computed the prefixes s keeps
    counts,    \* counts[w]: weighted_serveres of worker w, server to count
    sticky,    \* sticky[w]: request_id_to_server, least recently used first
    agent,     \* agent[i]: the coroutine of sample i and its AgentData
    sentTo,    \* sentTo[i]: the servers the turns of sample i went to
    finished,  \* the samples whose coroutines have returned, in that order
    output     \* the batch the last call returned

trainer == <<config, call, policy>>
engines == <<tasks, awake, loaded, cached>>
routing == <<counts, sticky, sentTo>>
vars == <<trainer, phase, engines, routing, agent, finished, output>>

\* The coroutines are running, whether or not the manager still awaits them.
Running == phase \in {"run", "failed"}

Workers == 1..config.workers
ChunkSize == BatchSize \div config.workers

\* prompts.chunk(num_workers): equal runs of consecutive samples.
Chunk(w) == (w - 1) * ChunkSize + 1 .. w * ChunkSize
WorkerOf(i) == (i - 1) \div ChunkSize + 1

NewAgent == [state |-> "pending", promptIds |-> <<>>, mask |-> <<>>,
             user |-> 0, assistant |-> 0, server |-> Nowhere]

Init == /\ config \in [workers : WorkerCounts, freeCache : BOOLEAN,
                       interactive : BOOLEAN,
                       maxUser : TurnLimits, maxAssistant : TurnLimits]
        /\ phase = "idle"
        /\ call = 0
        /\ policy = 1
        /\ tasks = {}
        /\ awake = IF config.freeCache THEN {} ELSE Servers
        /\ loaded = [s \in Servers |-> 0]
        /\ cached = [s \in Servers |-> {}]
        /\ counts = [w \in Workers |-> [s \in Servers |-> 0]]
        /\ sticky = [w \in Workers |-> <<>>]
        /\ agent = [i \in Samples |-> NewAgent]
        /\ sentTo = [i \in Samples |-> {}]
        /\ finished = <<>>
        /\ output = <<>>

-----------------------------------------------------------------------------
(* The manager, and the trainer that calls it.                             *)

\* The trainer calls generate_sequences: with the policy it used before (a
\* validation, the baseline of REMAX) or after an update of the actor.
Generate(updates) ==
    /\ phase = "idle"
    /\ call < MaxCalls
    /\ call' = call + 1
    /\ policy' = policy + updates
    /\ phase' = "wake"
    /\ tasks' = Servers
    /\ output' = <<>>
    /\ UNCHANGED <<config, awake, loaded, cached, routing, agent, finished>>

\* Faulty: with nothing to resume, rollout_mode does not sync the weights.
SyncFreed(s) == IF config.freeCache THEN [loaded EXCEPT ![s] = policy] ELSE loaded

\* update_weights of rollout_mode, on the workers of replica s.
Sync(s) == [loaded EXCEPT ![s] = policy]

\* wake_up of one replica; the manager awaits them together.
WakeUp(s) ==
    /\ phase = "wake"
    /\ s \in tasks
    /\ tasks' = tasks \ {s}
    /\ awake' = awake \cup {s}
    /\ loaded' = Sync(s)
    /\ UNCHANGED <<trainer, phase, cached, routing, agent, finished, output>>

\* Every worker is sent its chunk and starts a coroutine for each sample.
Dispatch ==
    /\ phase = "wake"
    /\ tasks = {}
    /\ phase' = "run"
    /\ UNCHANGED <<trainer, engines, routing, agent, finished, output>>

\* Faulty: the outputs are taken in the order in which they were ready.
AsCompleted(w) == SelectSeq(finished, LAMBDA i : i \in Chunk(w))

\* asyncio.gather: the outputs are in the order of the tasks.
Gathered(w) == [k \in 1..ChunkSize |-> (w - 1) * ChunkSize + k]

\* What run returns: the last Len(mask) tokens are the response.
Finalized(i) ==
    LET a == agent[i]
        from == Len(a.promptIds) - Len(a.mask)
        cut == IF Len(a.mask) < ResponseLength THEN Len(a.mask) ELSE ResponseLength
    IN  [sample   |-> i,
         prompt   |-> SubSeq(a.promptIds, 1, from),
         response |-> SubSeq(a.promptIds, from + 1, from + cut),
         mask     |-> SubSeq(a.mask, 1, cut),
         user     |-> a.user, assistant |-> a.assistant]

\* ray.get has the outputs of every worker, and concat puts them together;
\* then the replicas are put to sleep.
Collect ==
    /\ phase = "run"
    /\ ToSet(finished) = Samples
    /\ output' = [j \in Samples |->
                    Finalized(Gathered(WorkerOf(j))[((j - 1) % ChunkSize) + 1])]
    /\ agent' = [i \in Samples |-> NewAgent]
    /\ sentTo' = [i \in Samples |-> {}]
    /\ finished' = <<>>
    /\ phase' = "sleep"
    /\ tasks' = Servers
    /\ UNCHANGED <<trainer, awake, loaded, cached, counts, sticky>>

\* The exception of a sample goes through the gather of its worker to the
\* ray.get of the manager.  The servers are not put to sleep, and fit(), which
\* does not catch it, ends; the other coroutines go on until they are killed.
Fail ==
    /\ phase = "run"
    /\ \E i \in Samples : agent[i].state = "failed"
    /\ phase' = "failed"
    /\ UNCHANGED <<trainer, engines, routing, agent, finished, output>>

\* Faulty: with nothing to release, sleep leaves the prefixes where they are.
ResetFreed(s) == IF config.freeCache THEN [cached EXCEPT ![s] = {}] ELSE cached

\* reset_prefix_cache of the engine of replica s.
Reset(s) == [cached EXCEPT ![s] = {}]

\* sleep of one replica, once its engine has answered every request; only
\* with free_cache_engine does trainer_mode release the engine's memory.
Sleep(s) ==
    /\ phase = "sleep"
    /\ s \in tasks
    /\ \A i \in Samples : agent[i].server # s
    /\ tasks' = tasks \ {s}
    /\ cached' = Reset(s)
    /\ awake' = IF config.freeCache THEN awake \ {s} ELSE awake
    /\ UNCHANGED <<trainer, phase, loaded, routing, agent, finished, output>>

\* generate_sequences returns the batch.
Return ==
    /\ phase = "sleep"
    /\ tasks = {}
    /\ phase' = "idle"
    /\ UNCHANGED <<trainer, engines, routing, agent, finished, output>>

-----------------------------------------------------------------------------
(* AsyncLLMServerManager._choose_server.                                   *)

\* Faulty: the id is that of the turn, as the one the engine is given.
TurnId(i) == ((call - 1) * BatchSize + i - 1) * (MaxCacheSize + 1) + agent[i].assistant

\* A fresh uuid4 for each run of an agent loop.
RequestId(i) == (call - 1) * BatchSize + i

\* Faulty: the root is not put back in its place after its count has grown.
RootStays(w) == 1

\* The root of the heap: the lowest count, then the lowest hash.
LeastRequests(w) ==
    CHOOSE s \in Servers :
        \A t \in Servers :
            \/ counts[w][s] < counts[w][t]
            \/ counts[w][s] = counts[w][t] /\ s <= t

\* LRUCache: a new key pushes out the least recently used one.
Evicted(w) == IF Len(sticky[w]) < MaxCacheSize THEN sticky[w] ELSE Tail(sticky[w])

\* The request is known: its entry becomes the most recently used one.
ToKnown(w, r, s) ==
    /\ \E k \in DOMAIN sticky[w] :
          /\ sticky[w][k] = [request |-> r, server |-> s]
          /\ sticky' = [sticky EXCEPT ![w] = Append(RemoveAt(@, k), @[k])]
    /\ UNCHANGED counts

ToLeast(w, r, s) ==
    /\ \A k \in DOMAIN sticky[w] : sticky[w][k].request # r
    /\ s = LeastRequests(w)
    /\ counts' = [counts EXCEPT ![w][s] = @ + 1]
    /\ sticky' = [sticky EXCEPT
                    ![w] = Append(Evicted(w), [request |-> r, server |-> s])]

-----------------------------------------------------------------------------
(* ToolAgentLoop: the states of a sample.                                  *)

Written(a, writer, n, bit) ==
    [a EXCEPT !.promptIds = @ \o [k \in 1..n |-> writer],
              !.mask = @ \o [k \in 1..n |-> bit]]

\* _handle_pending_state: the chat template gives a prompt of n tokens.
HandlePending(i, n) ==
    /\ Running
    /\ agent[i].state = "pending"
    /\ agent' = [agent EXCEPT ![i].promptIds = [k \in 1..n |-> "prompt"],
                              ![i].state = "generating"]
    /\ UNCHANGED <<trainer, phase, engines, routing, finished, output>>

\* _handle_generating_state, up to the await of the server.
SendRequest(i) ==
    /\ Running
    /\ agent[i].state = "generating"
    /\ agent[i].server = Nowhere
    /\ \E s \in Servers :
          /\ \/ ToKnown(WorkerOf(i), RequestId(i), s)
             \/ ToLeast(WorkerOf(i), RequestId(i), s)
          /\ agent' = [agent EXCEPT ![i].server = s]
          /\ sentTo' = [sentTo EXCEPT ![i] = @ \cup {s}]
    /\ UNCHANGED <<trainer, phase, engines, finished, output>>

AtLimit(limit, turns) == limit # 0 /\ turns >= limit

TurnsUsed(a) == \/ AtLimit(config.maxAssistant, a.assistant)
                \/ AtLimit(config.maxUser, a.user)

\* What follows a turn of the assistant that holds tool calls or does not.
AfterTurn(a, toolCalls) ==
    IF Len(a.mask) >= ResponseLength \/ TurnsUsed(a) THEN "terminated"
    ELSE IF toolCalls THEN "processing_tools"
    ELSE IF config.interactive THEN "interacting" ELSE "terminated"

\* asyncio.gather of the worker sees which coroutines have returned.
Finish(i, state) == IF state = "terminated" THEN Append(finished, i) ELSE finished

\* max_tokens of the server: max_model_len, less the tokens of the request.
Room(a) == PromptLength + ResponseLength - Len(a.promptIds)

\* SamplingParams raises if there is no room for a token.
RejectRequest(i) ==
    /\ agent[i].state = "generating"
    /\ agent[i].server # Nowhere
    /\ Room(agent[i]) < 1
    /\ agent' = [agent EXCEPT ![i].server = Nowhere, ![i].state = "failed"]
    /\ UNCHANGED <<trainer, phase, engines, routing, finished, output>>

\* The server answers n tokens, and the rest of _handle_generating_state.
\* The engine keeps the prefix, computed with the weights it has loaded.
HandleGenerated(i, n, toolCalls) ==
    /\ agent[i].state = "generating"
    /\ agent[i].server # Nowhere
    /\ n <= Room(agent[i])
    /\ LET s == agent[i].server
           a == [Written(agent[i], "model", n, 1) EXCEPT !.assistant = @ + 1]
           state == AfterTurn(a, toolCalls)
       IN  /\ agent' = [agent EXCEPT ![i] = [a EXCEPT !.server = Nowhere, !.state = state]]
           /\ finished' = Finish(i, state)
           /\ cached' = [cached EXCEPT ![s] = @ \cup {loaded[s]}]
    /\ UNCHANGED <<trainer, phase, tasks, awake, loaded, routing, output>>

\* Faulty: the answer itself is not counted.
TooLongAlready(a, n) == Len(a.mask) >= ResponseLength

TooLong(a, n) == Len(a.mask) + n >= ResponseLength

\* Faulty: tools whose answer does not fit are called again.
AfterToolsAgain(a, n) ==
    IF TooLong(a, n) THEN a
    ELSE [Written(a, "tool", n, 0) EXCEPT !.user = @ + 1, !.state = "generating"]

\* The tools answer n tokens, which are dropped, with the turn, when they
\* do not fit into the response.
AfterTools(a, n) ==
    IF TooLong(a, n) THEN [a EXCEPT !.state = "terminated"]
    ELSE [Written(a, "tool", n, 0) EXCEPT !.user = @ + 1, !.state = "generating"]

\* _handle_processing_tools_state.
HandleTools(i, n) ==
    /\ agent[i].state = "processing_tools"
    /\ LET a == AfterTools(agent[i], n)
       IN  /\ agent' = [agent EXCEPT ![i] = a]
           /\ finished' = Finish(i, a.state)
    /\ UNCHANGED <<trainer, phase, engines, routing, output>>

\* _handle_interacting_state: the user answers n tokens, however long the
\* response is by now, and may end the conversation.
HandleInteraction(i, n, terminate) ==
    /\ agent[i].state = "interacting"
    /\ LET state == IF terminate THEN "terminated" ELSE "generating"
           a == Written(agent[i], "user", n, 0)
       IN  /\ agent' = [agent EXCEPT
                 ![i] = [a EXCEPT !.user = @ + 1, !.state = state]]
           /\ finished' = Finish(i, state)
    /\ UNCHANGED <<trainer, phase, engines, routing, output>>

SampleStep(i) ==
    \/ \E n \in 1..PromptLength : HandlePending(i, n)
    \/ SendRequest(i)
    \/ RejectRequest(i)
    \/ \E n \in 1..MaxTokens, toolCalls \in BOOLEAN :
          HandleGenerated(i, n, toolCalls)
    \/ \E n \in 1..MaxReply : HandleTools(i, n)
    \/ \E n \in 1..MaxReply, terminate \in BOOLEAN :
          HandleInteraction(i, n, terminate)

ReplicaStep(s) == WakeUp(s) \/ Sleep(s)

ManagerStep == Dispatch \/ Collect \/ Fail \/ Return

\* Every call has been made and has returned, or one has failed.
Terminated == /\ phase = "failed" \/ (phase = "idle" /\ call = MaxCalls)
              /\ UNCHANGED vars

Next == \/ \E updates \in 0..1 : Generate(updates)
        \/ \E s \in Servers : ReplicaStep(s)
        \/ ManagerStep
        \/ \E i \in Samples : SampleStep(i)
        \/ Terminated

\* The event loop comes round to every coroutine, every replica answers and
\* the manager goes on; nothing makes the trainer call.
Spec == /\ Init /\ [][Next]_vars
        /\ WF_vars(ManagerStep)
        /\ \A s \in Servers : WF_vars(ReplicaStep(s))
        /\ \A i \in Samples : WF_vars(SampleStep(i))

-----------------------------------------------------------------------------
(* Properties.                                                             *)

States == {"pending", "generating", "processing_tools", "interacting",
           "terminated", "failed"}
Writers == {"prompt", "model", "tool", "user"}

TypeOK ==
    /\ config \in [workers : WorkerCounts, freeCache : BOOLEAN,
                   interactive : BOOLEAN,
                   maxUser : TurnLimits, maxAssistant : TurnLimits]
    /\ phase \in {"idle", "wake", "run", "sleep", "failed"}
    /\ call \in 0..MaxCalls
    /\ policy \in Nat \ {0}
    /\ tasks \subseteq Servers /\ awake \subseteq Servers
    /\ loaded \in [Servers -> Nat]
    /\ cached \in [Servers -> SUBSET Nat]
    /\ counts \in [Workers -> [Servers -> Nat]]
    /\ sticky \in [Workers -> Seq([request : Nat, server : Servers])]
    /\ agent \in [Samples -> [state : States, promptIds : Seq(Writers),
                              mask : Seq({0, 1}), user : Nat, assistant : Nat,
                              server : Servers \cup {Nowhere}]]
    /\ sentTo \in [Samples -> SUBSET Servers]
    /\ finished \in Seq(Samples)

\* Every engine at work holds the weights of the last update and no prefix
\* from older ones, whether or not its memory is released between two calls
\* ("Always call wake_up() to ensure weight sync", agent_loop.py:824).
OnPolicy ==
    \A i \in Samples :
        LET s == agent[i].server
        IN  s # Nowhere => /\ s \in awake
                           /\ loaded[s] = policy
                           /\ cached[s] \subseteq {policy}

\* All turns of a sample go to one server, however the samples of a worker
\* take turns and however full the cache is with the requests of earlier
\* calls (AsyncLLMServerManager: "Sticky session").
Sticky == \A i \in Samples : Cardinality(sentTo[i]) <= 1

\* No server of a worker has been given two new requests more than another
\* (AsyncLLMServerManager: "least requests load balancing").
Balanced == \A w \in Workers : \A s, t \in Servers : counts[w][s] <= counts[w][t] + 1

\* The batch is in the order of the prompts, and in each of its rows the
\* response begins where the prompt ends and the mask tells the tokens of
\* the model from those of the tools and the user, cut off or not.
RowsMatch ==
    \A j \in DOMAIN output :
        LET row == output[j]
        IN  /\ row.sample = j
            /\ \A k \in DOMAIN row.prompt : row.prompt[k] = "prompt"
            /\ DOMAIN row.mask = DOMAIN row.response
            /\ \A k \in DOMAIN row.mask :
                  /\ row.response[k] # "prompt"
                  /\ row.mask[k] = 1 <=> row.response[k] = "model"

\* The user wrote the last token.
EndsWithUser(a) == a.promptIds # <<>> /\ a.promptIds[Len(a.promptIds)] = "user"

\* The user's answer has left the server no room.
Overrun(a) == config.interactive /\ EndsWithUser(a) /\ Room(a) < 1

\* No sample takes more turns than its limits allow, though they are only
\* looked at after a turn of the assistant; only a user's answer, whose length
\* nothing looks at, makes it longer than the server takes, and then it fails;
\* and no row of the batch is longer than the columns it is padded to.
WithinLimits ==
    /\ \A i \in Samples :
          LET a == agent[i]
          IN  /\ config.maxAssistant # 0 => a.assistant <= config.maxAssistant
              /\ config.maxUser # 0 => a.user <= config.maxUser
              /\ Room(a) < 0 \/ a.state = "failed" => Overrun(a)
    /\ \A j \in DOMAIN output :
          /\ Len(output[j].prompt) <= PromptLength
          /\ Len(output[j].response) <= ResponseLength

\* Every call ends, also with no limit on the turns: it returns, or a user's
\* answer has left one of its samples no room and it fails.
CallConcludes ==
    (phase = "wake") ~> \/ phase = "idle"
                        \/ /\ phase = "failed"
                           /\ \E i \in Samples : agent[i].state = "failed" /\ Overrun(agent[i])
=============================================================================

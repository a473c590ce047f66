------------------------------ MODULE DemoFlow ------------------------------
(* The demo endpoint under the same threads: a request reads or creates the  *)
(* public state of its conversation in a process-wide table, selects a       *)
(* domain pack, has the workflow write the reply, stores the state it        *)
(* computed from the one it read, and only then runs the event on the        *)
(* runtime.  No step holds a lock and nothing ties a store to its read.      *)
(* Source: aca_os/demo_domain_flow.py, aca_os/public_conversation_state.py.  *)
EXTENDS PublicConversations, DemoWorkflow

VARIABLES
    talks,      \* _STATES: the public state of each conversation that has one
    jobs,       \* what each thread is doing for this endpoint
    asked       \* the requests: what was answered, and what was answered before

demo == <<talks, jobs, asked>>

DemoInit ==
    /\ Init
    /\ talks = [c \in {} |-> NewTalk]
    /\ jobs = [w \in Workers |-> Idle]
    /\ asked = << >>

AnsweredTalk == {i \in DOMAIN asked : asked[i].kind # "pending"}

(* POST /demo/domain-flow: a request reaches a thread.                       *)
Ask(w) ==
    /\ jobs[w].pc = "idle" /\ w \in setting.demo.workers /\ Len(asked) < setting.demo.requests
    /\ \E c \in setting.conversations, ask \in setting.demo.asks :
          /\ jobs' = [jobs EXCEPT ![w] = [pc |-> "look", request |-> Len(asked) + 1, conv |-> c,
                                          msg |-> ask.msg, pack |-> ask.pack]]
          /\ asked' = Append(asked, [conv |-> c, kind |-> "pending", after |-> AnsweredTalk,
                                   category |-> None, text |-> Nothing, told |-> {}, facts |-> {}])
    /\ UNCHANGED talks

(* get_public_conversation_state: the look and the store of a new state are  *)
(* two steps; a state found since by another thread is overwritten.          *)
Look(w) ==
    LET c == jobs[w].conv
    IN /\ jobs[w].pc = "look"
       /\ jobs' = [jobs EXCEPT ![w] = IF c \in DOMAIN talks
                                      THEN Extend(@, [pc |-> "compose", talk |-> talks[c]])
                                      ELSE [@ EXCEPT !.pc = "create"]]
       /\ UNCHANGED <<talks, asked>>

Create(w) ==
    /\ jobs[w].pc = "create"
    /\ talks' = Extend(talks, [c \in {jobs[w].conv} |-> NewTalk])
    /\ jobs' = [jobs EXCEPT ![w] = Extend(@, [pc |-> "compose", talk |-> NewTalk])]
    /\ UNCHANGED asked

Close(w, answer) ==
    /\ asked' = [asked EXCEPT ![jobs[w].request] = Extend(@, answer)]
    /\ jobs' = [jobs EXCEPT ![w] = Idle]

(* _select_pack: a pack that is asked for and not loaded is a KeyError,      *)
(* raised when the state has already been created.                           *)
PackMissing(w) ==
    /\ jobs[w].pc = "compose" /\ jobs[w].pack = "unknown"
    /\ Close(w, [kind |-> "not_found"])
    /\ UNCHANGED talks

\* Mutant: the turn is counted from the start of the conversation.
ComposeFromNew(w) ==
    LET job == jobs[w]
        out == Workflow(job.msg, NewTalk, CaseNumber(job.msg, NewTalk))
    IN /\ job.pc = "compose" /\ job.pack # "unknown"
       /\ talks' = [talks EXCEPT ![job.conv] = Update(job.msg, NewTalk, CaseNumber(job.msg, NewTalk), out)]
       /\ jobs' = [jobs EXCEPT ![w] = Extend(@, [pc |-> "execute", out |-> out])]
       /\ UNCHANGED asked

(* The reply is composed and the state replaced by one built on the old read.*)
Compose(w) ==
    LET job == jobs[w]
        number == CaseNumber(job.msg, job.talk)
        out == Workflow(job.msg, job.talk, number)
    IN /\ job.pc = "compose" /\ job.pack # "unknown"
       /\ talks' = [talks EXCEPT ![job.conv] = Update(job.msg, job.talk, number, out)]
       /\ jobs' = [jobs EXCEPT ![w] = Extend(@, [pc |-> "execute", out |-> out])]
       /\ UNCHANGED asked

(* process_event on the runtime: it may still raise, and the turn stays.     *)
Execute(w) ==
    LET out == jobs[w].out
        Answers(kind) == [kind |-> kind, category |-> out.reply.category, text |-> out.reply.text,
                          told |-> out.reply.told, facts |-> out.parse.facts]
    IN /\ jobs[w].pc = "execute"
       /\ \/ Close(w, Answers("answered"))
          \/ setting.demo.faults /\ Close(w, Answers("error"))
       /\ UNCHANGED talks

DemoStep(w) == Ask(w) \/ Look(w) \/ Create(w) \/ PackMissing(w) \/ Compose(w) \/ Execute(w)

(* Both endpoints of the server.                                             *)
ServerNext ==
    \/ Next /\ UNCHANGED demo
    \/ (\E w \in Workers : DemoStep(w)) /\ UNCHANGED vars

ServerSpec == DemoInit /\ [][ServerNext]_<<vars, demo>>

-----------------------------------------------------------------------------
Turns(c) == {i \in DOMAIN asked : asked[i].conv = c /\ asked[i].kind \in {"answered", "error"}}
Earlier(i, j) == i \in asked[j].after
Overlap(i, j) == asked[i].conv = asked[j].conv /\ i # j /\ ~Earlier(i, j) /\ ~Earlier(j, i)
Alone(i) == \A j \in DOMAIN asked : ~Overlap(i, j)

(* A turn is missing from the state of its conversation only when another    *)
(* request of the conversation ran at the same time: packs that are not      *)
(* there and runtimes that fail take nothing away.                           *)
TurnsCounted ==
    \A c \in DOMAIN talks : talks[c].turns >= Cardinality({i \in Turns(c) : Alone(i)})

(* The summary of a derivation tells all that was understood in the earlier  *)
(* turns of the conversation, so that nobody has to say it again.            *)
HandoffTellsAll ==
    \A i, j \in DOMAIN asked :
       (/\ asked[i].category = "handoff_summary" /\ asked[i].conv = asked[j].conv /\ Earlier(j, i)
        /\ \A k \in Turns(asked[i].conv) : Alone(k))
       => asked[j].facts \subseteq asked[i].told

(* The same fallback is not said twice in a row.                             *)
FallbackNotRepeated ==
    \A i, j \in DOMAIN asked :
       (/\ i + 1 = j /\ Earlier(i, j) /\ asked[i].conv = asked[j].conv
        /\ {asked[i].category, asked[j].category} \subseteq {"fallback", "clarification"})
       => asked[i].text # asked[j].text
=============================================================================

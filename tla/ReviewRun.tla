------------------------------ MODULE ReviewRun ------------------------------
(***************************************************************************)
(* One client's requests to the review service: admission by the public   *)
(* guard, the search that offers candidates, the review over them (node   *)
(* by node, with paid model calls between the nodes), the stored run, and  *)
(* the event stream.  An action is the stretch of the request's task       *)
(* between two awaits.  The environment updates the index behind the gate, *)
(* denies or grants the shared allowance, lets tokens lapse and drops      *)
(* connections.  One token costs one unit.                                 *)
(***************************************************************************)
EXTENDS EvidenceSelection, FiniteSets

CONSTANTS
    Version, Gone,      \* what the index may hold of a chunk
    InputCap, OutputCap, CostCap,   \* ProviderBudget: one model call, and all calls of a run
    RunInput, RunOutput,            \* Budget: the workflow's own token limits
    MaxIterations,
    MaxPrompt,          \* bound: the largest prompt
    Kind,               \* the requests that occur, of "retrieve", "review", "stream"
    None

Site == {"classify", "translate", "grade", "check"}
Node == {"gate", "retrieve", "grade", "check", "report"}
Refusal == {"error", "budget_exceeded", "schema_rejected"}  \* a call without a usable output
Failure == Refusal \cup {"node_error"}

Selection == {x \in [pinned : SeqOf(Chunk, 2), excluded : SUBSET Chunk] :
                 /\ IsInjective(x.pinned)
                 /\ ToSet(x.pinned) \cap x.excluded = {}
                 /\ Cardinality(x.excluded) <= 1}
Requests == [kind : Kind, selection : Selection \cup {None}]
Calls == [site : Site, attempt : 1..2, in : Nat, out : Nat, requests : 0..2,
          status : {None, "ok"} \cup Refusal]
Decisions == [label : {"SUPPORTED", "PERIOD_MISMATCH", "NOT_IN_DOCS"}, cited : SUBSET Chunk]
Step == [node : Site, requests : 0..2]
Records == [status : Failure \cup {"ok"}, decision : Decisions \cup {None},
            path : Seq(Node), steps : Seq(Step)]

ASSUME ReviewAssumption ==
    /\ {InputCap, OutputCap, CostCap, RunInput, RunOutput} \subseteq Nat \ {0}
    /\ MaxPrompt \in Nat
    /\ Kind \subseteq {"retrieve", "review", "stream"}
    /\ Gone \notin Version
    /\ None \notin Failure /\ None \notin Requests /\ None \notin Calls
    /\ None \notin Decisions /\ None \notin Records

VARIABLES
    stored,     \* the searchable index
    updating,   \* a corpus job has raised the barrier of CorpusAccess
    reading,    \* this request is admitted as a search
    token,      \* the candidate token the client was given
    req,        \* the request: kind and selection
    half,       \* the service call inside it: "retrieve" or "review"
    at,         \* what the request's task does next
    intent,     \* the decision in the recorder's routing cache, None before
    call,       \* the model call under way: site, attempt, tokens used
    billed,     \* requests sent by grade and check
    run,        \* WorkflowState
    denied,     \* the allowance denied a call of this run
    outcome,    \* what the task will answer
    record,     \* the stored run
    answer,     \* the answer to a request without a stream
    events, client   \* all that was put on the event queue, and the connection

index == <<stored, updating>>
request == <<token, req, half>>
work == <<intent, call, billed, run, denied, record>>
channel == <<events, client>>
vars == <<index, reading, request, at, work, outcome, answer, channel>>

Fresh == [evidence |-> <<>>, relevant |-> {}, decision |-> None, path |-> <<>>, steps |-> <<>>,
          in |-> 0, out |-> 0, failure |-> None]

Init ==
    /\ stored \in [Chunk -> Version] /\ updating = FALSE /\ reading = FALSE
    /\ token = None
    /\ req = None /\ half = None /\ at = "idle" /\ outcome = None /\ answer = None
    /\ intent = None /\ call = None /\ billed = 0
    /\ run = Fresh /\ denied = FALSE /\ record = None /\ events = <<>> /\ client = "away"

\* A request is over or abandoned: its call, its recorder and its queue are gone.
Drop(next, connection) ==
    /\ req' = None /\ half' = None /\ at' = next /\ outcome' = None /\ answer' = None
    /\ intent' = None /\ call' = None /\ billed' = 0
    /\ run' = Fresh /\ denied' = FALSE /\ record' = None /\ events' = <<>> /\ client' = connection

-----------------------------------------------------------------------------
(* Where a task goes next. *)

Continue(next) == at' = next /\ UNCHANGED outcome
End(type, what) == at' = "leave" /\ outcome' = [type |-> type, what |-> what]

\* A new request.  A selection is made from the candidates of the request before; without
\* one the client forgets them.
Submit(kind, selection) ==
    /\ at = "idle" /\ req = None
    /\ kind \in Kind /\ (selection # None => token # None /\ kind # "retrieve")
    /\ req' = [kind |-> kind, selection |-> selection] /\ at' = "admit"
    /\ token' = IF selection = None THEN None ELSE token
    /\ UNCHANGED <<index, reading, half, work, outcome, answer, channel>>

\* ReleaseGuardMiddleware: the allowance refuses the request, or a control of its body is
\* not allowed; AIAllowance models the counting.
Admit ==
    /\ at = "admit"
    /\ \/ \E problem \in {"rate_limited", "allowance_unavailable", "capability_disabled"} :
              End("error", problem) /\ UNCHANGED <<half, client>>
       \/ /\ half' = IF req.kind = "review" \/ req.selection # None THEN "review" ELSE "retrieve"
          /\ client' = IF req.kind = "stream" THEN "reading" ELSE client
          /\ Continue("enter")
    /\ UNCHANGED <<index, reading, token, req, work, answer, events>>

\* _request_connection(): the search side of the gate, held for all of the call.
Enter ==
    /\ at = "enter"
    /\ IF updating THEN End("error", "corpus_updating") /\ UNCHANGED reading
       ELSE reading' = TRUE /\ Continue("path")
    /\ UNCHANGED <<index, request, work, answer, channel>>

-----------------------------------------------------------------------------
(* One model call: complete(), and _request() of the OpenAI provider. *)

\* Committed nodes are events of the stream.
Event(type) == [event |-> type, node |-> None]
\* Mutant of Notify: a node that fails is not told.
NotifyCommitted == events' = IF req.kind = "stream" /\ run'.path # run.path /\ run'.failure = None
                             THEN Append(events, [event |-> "node", node |-> Last(run'.path)]) ELSE events

Notify == events' = IF req.kind = "stream" /\ run'.path # run.path
                   THEN Append(events, [event |-> "node", node |-> Last(run'.path)]) ELSE events

Least(a, b) == IF a < b THEN a ELSE b

\* Mutant of Remaining: each call has the limits for itself.
RemainingPerCall == [in |-> Least(InputCap, RunInput) - call.in, out |-> Least(OutputCap, RunOutput) - call.out,
                     cost |-> CostCap - call.in - call.out]

\* What the call may still use of input, output and cost; grade and check share a run's.
Remaining ==
    LET shared == call.site \in {"grade", "check"}
        in == IF shared THEN Least(InputCap, RunInput) - run.in ELSE InputCap
        out == IF shared THEN Least(OutputCap, RunOutput) - run.out ELSE OutputCap
        cost == IF shared THEN CostCap - run.in - run.out ELSE CostCap
    IN  [in |-> in - call.in, out |-> out - call.out, cost |-> cost - call.in - call.out]

BeginCall(site) == call' = [site |-> site, attempt |-> 1, in |-> 0, out |-> 0,
                            requests |-> 0, status |-> None]

\* _traced(): the run after a call, with its step and its usage.
Traced(c, requests) ==
    [run EXCEPT !.steps = Append(@, [node |-> c.site, requests |-> requests]),
                !.in = @ + c.in, !.out = @ + c.out]

\* A node fails: the failure is its outcome and the run is stored as it stands.
NodeFails(node, status, traced) ==
    /\ run' = [traced EXCEPT !.failure = status, !.path = Append(@, node)]
    /\ Continue("persist")

\* The result of check's call waits in `call` for the fragments of the tables it may
\* cite, which are read whatever the result is.
AwaitFragments(c, requests, status) ==
    /\ call' = [c EXCEPT !.requests = requests, !.status = status]
    /\ Continue("fragments")

\* The call ends without a usable output after `requests` requests of usage c.
CallFails(c, requests, status) ==
    \/ c.site = "check" /\ AwaitFragments(c, requests, status) /\ UNCHANGED run
    \/ c.site = "grade" /\ NodeFails("grade", status, Traced(c, requests)) /\ call' = None
    \/ /\ c.site \in {"classify", "translate"} /\ call' = None /\ UNCHANGED run
       /\ End("error", IF c.site = "classify" THEN "provider_unavailable" ELSE "query_routing_failed")

\* Mutant of CallDenied: the attempt before the denied one is forgotten.
CallDeniedUntraced ==
    LET node == call.site \in {"grade", "check"}
    IN  \/ /\ node /\ (call.attempt = 2 \/ run.steps # <<>>)
           /\ NodeFails(call.site, "budget_exceeded", run) /\ denied' = TRUE
        \/ /\ ~node \/ (call.attempt = 1 /\ run.steps = <<>>)
           /\ End("error", "denied") /\ UNCHANGED <<run, denied>>

\* Mutant of CallDenied: a denial always leaves the run without storing it.
CallDeniedBare == End("error", "denied") /\ UNCHANGED <<run, denied>>

\* AIAllowanceError: before anything of this run was sent it leaves as it is; after a
\* billed attempt the run is stored first.
CallDenied ==
    LET node == call.site \in {"grade", "check"}
    IN  \/ /\ node /\ call.attempt = 2
           /\ NodeFails(call.site, "budget_exceeded", Traced(call, 1)) /\ denied' = TRUE
        \/ /\ node /\ call.attempt = 1 /\ run.steps # <<>>
           /\ NodeFails(call.site, "budget_exceeded", run) /\ denied' = TRUE
        \/ /\ ~node \/ (call.attempt = 1 /\ run.steps = <<>>)
           /\ End("error", "denied") /\ UNCHANGED <<run, denied>>

\* Preflight and reservation of one attempt at the highest price it may reach.
Reserve ==
    /\ at = "reserve"
    /\ \E prompt \in 1..MaxPrompt :
           LET fits == prompt <= Remaining.in /\ prompt + Remaining.out <= Remaining.cost
           IN  \/ ~fits /\ CallFails(call, call.attempt - 1, "budget_exceeded") /\ UNCHANGED denied
               \/ CallFails(call, call.attempt - 1, "error") /\ UNCHANGED denied   \* no tokenizer
               \/ fits /\ Continue("sending") /\ UNCHANGED <<call, run, denied>>
               \/ fits /\ CallDenied /\ call' = None
    /\ Notify
    /\ UNCHANGED <<index, reading, request, intent, billed, record, answer, client>>

\* grade_node(): only supplied evidence can be relevant.
Graded(traced) ==
    \E relevant \in SUBSET Ids(run.evidence) :
        /\ run' = [traced EXCEPT !.path = Append(@, "grade"), !.relevant = relevant]
        /\ Continue(IF run'.relevant = {} THEN "report" ELSE "check")

Classified ==
    \/ intent' = "document_review" /\ Continue("route")
    \/ intent' = "service_help" /\ Continue("guidance")
    \/ UNCHANGED intent /\ End("error", "unsupported_request")

\* A parsed output, by the call that asked for it.
CallOk(c) ==
    \/ c.site = "classify" /\ Classified /\ call' = None /\ UNCHANGED run
    \/ c.site = "translate" /\ Continue(IF half = "retrieve" THEN "search" ELSE "retrieve")
       /\ call' = None /\ UNCHANGED <<intent, run>>
    \/ c.site = "grade" /\ Graded(Traced(c, c.attempt)) /\ call' = None /\ UNCHANGED intent
    \/ c.site = "check" /\ AwaitFragments(c, c.attempt, "ok") /\ UNCHANGED <<intent, run>>

\* The provider answers a request that was sent, or the transport fails.
Answered(c, over, spent) ==
    \/ CallFails(c, c.attempt, "error") /\ UNCHANGED intent    \* refused by the provider
    \/ over /\ CallFails(c, c.attempt, "budget_exceeded") /\ UNCHANGED intent
    \/ ~over /\ CallOk(c)
    \/ ~over /\ c.attempt = 2 /\ CallFails(c, 2, "schema_rejected") /\ UNCHANGED intent
    \/ ~over /\ c.attempt = 1 /\ spent /\ CallFails(c, 1, "budget_exceeded") /\ UNCHANGED intent

Respond ==
    /\ at = "sending"
    /\ billed' = billed + (IF call.site \in {"grade", "check"} THEN 1 ELSE 0)
    /\ \/ CallFails(call, call.attempt, "error") /\ UNCHANGED intent
       \/ \E in \in 1..MaxPrompt, out \in 0..Remaining.out :
              LET c == [call EXCEPT !.in = @ + in, !.out = @ + out]
                  over == in > Remaining.in \/ in + out > Remaining.cost
                  spent == in >= Remaining.in \/ out >= Remaining.out \/ in + out >= Remaining.cost
              IN  \/ Answered(c, over, spent)
                  \/ /\ ~spent /\ call.attempt = 1      \* unusable output: repair it once
                     /\ call' = [c EXCEPT !.attempt = 2]
                     /\ Continue("reserve") /\ UNCHANGED <<intent, run>>
    /\ Notify
    /\ UNCHANGED <<index, reading, request, denied, record, answer, client>>

-----------------------------------------------------------------------------
(* Deciding the path, and the search that offers candidates. *)

\* decide_path(): once per request, by rules or by the classifier.
DecidePath ==
    /\ at = "path"
    /\ \/ /\ intent # None /\ UNCHANGED <<intent, call>>
          /\ Continue(IF intent = "service_help" THEN "guidance" ELSE "route")
       \/ intent = None /\ Classified /\ UNCHANGED call
       \/ intent = None /\ BeginCall("classify") /\ Continue("reserve") /\ UNCHANGED intent
    /\ UNCHANGED <<index, reading, request, billed, run, denied, record, answer, channel>>

\* The selected evidence, a translation into another language of the scope, or neither.
Route ==
    /\ at = "route"
    /\ \/ half = "review" /\ End("error", "provider_unavailable") /\ UNCHANGED call
       \/ half = "review" /\ req.selection # None /\ Continue("verify") /\ UNCHANGED call
       \/ /\ ~(half = "review" /\ req.selection # None)
          /\ \/ BeginCall("translate") /\ Continue("reserve")
             \/ UNCHANGED call /\ Continue(IF half = "retrieve" THEN "search" ELSE "retrieve")
    /\ UNCHANGED <<index, reading, request, intent, billed, run, denied, record,
                   answer, channel>>

\* What a search may find: the chunks of the index in some order, without repetition.
Rankings == {[i \in DOMAIN s |-> [id |-> s[i], v |-> stored[s[i]]]] :
                s \in {x \in SeqOf(Chunk, Cardinality(Chunk)) :
                           IsInjective(x) /\ \A i \in DOMAIN x : stored[x[i]] # Gone}}

\* Embedding the query may be denied; the index may not be ready.
SearchCandidates ==
    /\ at = "search"
    /\ \/ End("error", "denied")
       \/ End("error", "search_failed")
       \/ \E ranked \in Rankings : End("candidates", ranked)
    /\ UNCHANGED <<index, reading, request, work, answer, channel>>

\* Service guidance: no candidates, and a stored run without model calls of its own.
Guide ==
    /\ at = "guidance"
    /\ IF half = "retrieve" THEN End("candidates", None) /\ UNCHANGED run
       ELSE run' = [run EXCEPT !.path = <<"gate">>] /\ Continue("persist")
    /\ UNCHANGED <<index, reading, request, intent, call, billed, denied, record,
                   answer, channel>>

-----------------------------------------------------------------------------
(* The review of selected or searched evidence. *)

\* The token must be alive, signed by this process, and for this query and scope.
Verify ==
    /\ at = "verify"
    /\ \/ token.live /\ Continue("load")
       \/ ~token.live /\ End("error", "candidate_snapshot_expired")
       \/ End("error", "candidate_snapshot_mismatch")
    /\ UNCHANGED <<index, reading, request, work, answer, channel>>

\* Mutant of LoadSelected: the text in the token is trusted.
LoadSelectedTrusting ==
    /\ at = "load"
    /\ IF SelectionFits(token.candidates, req.selection) THEN Continue("retrieve")
       ELSE End("error", "invalid_evidence_selection")
    /\ UNCHANGED <<index, reading, request, work, answer, channel>>

\* Every candidate is read again and must be what the token names.
LoadSelected ==
    /\ at = "load"
    /\ LET stale == \E h \in ToSet(token.candidates) : stored[h.id] # h.v
           fits == SelectionFits(token.candidates, req.selection)
       IN  /\ ~fits \/ stale => End("error", IF stale THEN "candidate_snapshot_stale"
                                             ELSE "invalid_evidence_selection")
           /\ fits /\ ~stale => Continue("retrieve")
    /\ UNCHANGED <<index, reading, request, work, answer, channel>>

\* The pacing limits and, for a node that calls a model, the token limits.
Exhausted(node) ==
    \/ Len(run.path) >= MaxIterations
    \/ node # "retrieve" /\ (run.in >= RunInput \/ run.out >= RunOutput)

\* A refused node is not committed; the wall clock may run out before any node.
Blocked == run' = [run EXCEPT !.failure = "budget_exceeded"] /\ Continue("persist")

RetrieveNode ==
    /\ at = "retrieve"
    /\ \/ Blocked
       \/ /\ ~Exhausted("retrieve")
          /\ \/ req.selection = None /\ End("error", "denied") /\ UNCHANGED run
             \/ /\ req.selection = None
                /\ NodeFails("retrieve", "node_error", run)
             \/ \E hits \in IF req.selection = None THEN Rankings
                            ELSE {Selected(token.candidates, req.selection)} :
                    LET evidence == Evidence(hits, IF req.selection = None THEN MaxPerDocument ELSE K)
                    IN  /\ run' = [run EXCEPT !.evidence = evidence, !.path = Append(@, "retrieve")]
                        /\ Continue(IF evidence = <<>> THEN "report" ELSE "grade")
    /\ Notify
    /\ UNCHANGED <<index, reading, request, intent, call, billed, denied, record, answer,
                   client>>

\* _provider_allowance(): another call may start only if something is left of each limit.
NothingLeft ==
    \/ run.in >= Least(InputCap, RunInput) \/ run.out >= Least(OutputCap, RunOutput)
    \/ run.in + run.out >= CostCap

ModelNode(node) ==
    /\ at = node /\ node \in {"grade", "check"}
    /\ \/ Blocked /\ UNCHANGED call
       \/ ~Exhausted(node) /\ NothingLeft
          /\ NodeFails(node, "budget_exceeded", run) /\ UNCHANGED call
       \/ ~Exhausted(node) /\ ~NothingLeft /\ BeginCall(node) /\ Continue("reserve") /\ UNCHANGED run
    /\ Notify
    /\ UNCHANGED <<index, reading, request, intent, billed, denied, record, answer,
                   client>>

\* Mutant of Guarded: any evidence may be cited.
GuardedByEvidence(cited) ==
    {[label |-> "NOT_IN_DOCS", cited |-> {}]} \cup
        (IF cited # {} /\ cited \subseteq Ids(run.evidence)
         THEN {[label |-> l, cited |-> cited] : l \in {"SUPPORTED", "PERIOD_MISMATCH"}} ELSE {})

\* check_node(): a claim of support stands only if all it cites is relevant and its
\* figures hold; figures of another period are a mismatch.
Guarded(cited) ==
    {[label |-> "NOT_IN_DOCS", cited |-> {}]} \cup
        (IF cited # {} /\ cited \subseteq run.relevant
         THEN {[label |-> l, cited |-> cited] : l \in {"SUPPORTED", "PERIOD_MISMATCH"}} ELSE {})

CheckNode ==
    /\ at = "fragments" /\ call' = None
    /\ \/ /\ call.status = "ok"
          /\ \E cited \in SUBSET Chunk : \E decision \in Guarded(cited) :
                run' = [Traced(call, call.requests) EXCEPT !.decision = decision,
                                                           !.path = Append(@, "check")]
          /\ Continue("report")
       \/ call.status # "ok" /\ NodeFails("check", call.status, Traced(call, call.requests))
       \/ NodeFails("check", "node_error", run)      \* the fragments cannot be read
    /\ Notify
    /\ UNCHANGED <<index, reading, request, intent, billed, denied, record, answer, client>>

ReportNode ==
    /\ at = "report"
    /\ run' = [run EXCEPT !.path = Append(@, "report"),
                          !.decision = IF @ = None THEN [label |-> "NOT_IN_DOCS", cited |-> {}] ELSE @]
    /\ Continue("persist") /\ Notify
    /\ UNCHANGED <<index, reading, request, intent, call, billed, denied, record,
                   answer, client>>

\* Its evidence is that of the run.
Stored == [status |-> CASE run.failure = None -> "ok"
                       [] run.failure = "node_error" -> "error"
                       [] OTHER -> run.failure,
           decision |-> IF run.failure = None THEN run.decision ELSE None,
           path |-> run.path, steps |-> run.steps]

\* The run is stored before it is answered, also when the answer is a denial.
Persist ==
    /\ at = "persist"
    /\ \/ record' = Stored
          /\ IF denied THEN End("error", "denied") ELSE End("report", None)
       \/ UNCHANGED record /\ End("error", "database_unavailable")
    /\ UNCHANGED <<index, reading, request, intent, call, billed, run, denied,
                   answer, channel>>

\* Mutant of Closing: the end is queued after a report only.
ClosingReport(type) == IF type = "report" THEN <<Event(type), Event("end")>> ELSE <<Event(type)>>

\* The terminal event, and the one that lets the generator stop.
Closing(type) == <<Event(type), Event("end")>>

\* A service call returns: the gate is left, and the request answers or goes on.
Leave ==
    /\ at = "leave" /\ reading' = FALSE
    /\ IF outcome.type = "candidates" /\ outcome.what # None
       THEN token' = [candidates |-> outcome.what, live |-> TRUE] ELSE UNCHANGED token
    /\ IF outcome.type = "candidates" /\ req.kind = "stream"
       THEN /\ events' = Append(events, Event("candidates")) /\ half' = "review" /\ Continue("enter")
            /\ req' = IF outcome.what = None THEN req
                      ELSE [req EXCEPT !.selection = [pinned |-> <<>>, excluded |-> {}]]
            /\ UNCHANGED answer
       ELSE /\ at' = "idle" /\ UNCHANGED <<half, req>>
            /\ IF client = "reading"
               THEN events' = events \o Closing(outcome.type) /\ UNCHANGED answer
               ELSE answer' = outcome /\ UNCHANGED events
    /\ UNCHANGED <<index, outcome, work, client>>

-----------------------------------------------------------------------------
(* The event stream, and the rest of the world. *)

\* events(): the generator takes one event at a time, and ends after the last; when the
\* body closes earlier, the producer is cancelled at its await.
Delivered ==
    /\ \/ client = "reading" /\ events # <<>> /\ Last(events).event = "end"
       \/ answer # None
    /\ Drop("idle", "away")
    /\ UNCHANGED <<index, reading, token>>

\* The client goes away; its producer still has to give back what it holds.
Disconnect ==
    /\ client = "reading" /\ Drop("unwind", "gone")
    /\ UNCHANGED <<index, reading, token>>

\* Mutant of Unwind: the cancelled producer stays a reader.
UnwindKeepsReading ==
    /\ at = "unwind" /\ Drop("idle", "away")
    /\ UNCHANGED <<index, reading, token>>

Unwind ==
    /\ at = "unwind" /\ reading' = FALSE /\ Drop("idle", "away")
    /\ UNCHANGED <<index, token>>

\* CorpusAccess: the barrier stops new searches, the rewrite waits for admitted ones.
BeginUpdate ==
    /\ ~updating /\ updating' = TRUE
    /\ UNCHANGED <<stored, reading, request, at, work, outcome, answer, channel>>
EndUpdate ==
    /\ updating /\ ~reading /\ updating' = FALSE
    /\ \E c \in Chunk, content \in Version \cup {Gone} : stored' = [stored EXCEPT ![c] = content]
    /\ UNCHANGED <<reading, request, at, work, outcome, answer, channel>>

\* Thirty minutes pass, or the process restarts with another signing key.
TokenLapses ==
    /\ token # None /\ token.live /\ token' = [token EXCEPT !.live = FALSE]
    /\ UNCHANGED <<index, reading, req, half, at, work, outcome, answer, channel>>

Task == \/ Admit \/ Enter \/ DecidePath \/ Route \/ SearchCandidates \/ Guide \/ Verify
        \/ LoadSelected \/ RetrieveNode \/ (\E n \in {"grade", "check"} : ModelNode(n))
        \/ Reserve \/ Respond \/ CheckNode \/ ReportNode \/ Persist \/ Leave \/ Unwind
World == BeginUpdate \/ EndUpdate \/ TokenLapses \/ Disconnect

Next == (\E k \in Kind, x \in Selection \cup {None} : Submit(k, x)) \/ Task \/ Delivered \/ World
Spec == Init /\ [][Next]_vars

\* A request's awaits end, a connected client reads, an update that may run does.
Fairness == WF_vars(Task) /\ WF_vars(Delivered) /\ WF_vars(EndUpdate)
FairSpec == Spec /\ Fairness

-----------------------------------------------------------------------------
(* Properties. *)

Hit == [id : Chunk, v : Version]

TypeOK ==
    /\ stored \in [Chunk -> Version \cup {Gone}]
    /\ {updating, reading, denied} \subseteq BOOLEAN
    /\ token # None => ToSet(token.candidates) \subseteq Hit /\ token.live \in BOOLEAN
    /\ req \in Requests \cup {None}
    /\ half \in {None, "retrieve", "review"}
    /\ intent \in {None, "document_review", "service_help"}
    /\ call \in Calls \cup {None} /\ billed \in Nat
    /\ ToSet(run.evidence) \subseteq Hit /\ run.relevant \subseteq Chunk
    /\ run.decision \in Decisions \cup {None}
    /\ client \in {"away", "reading", "gone"}

\* A stored answer that claims support cites something, only chunks that were graded
\* relevant, and none that the reviewer had excluded.
SupportedIsGrounded ==
    record # None /\ record.decision # None /\ record.decision.label # "NOT_IN_DOCS" =>
        /\ record.decision.cited # {}
        /\ record.decision.cited \subseteq run.relevant \cap Ids(run.evidence)
        /\ req.selection # None => record.decision.cited \cap req.selection.excluded = {}

\* All through the paid calls of a review, its evidence is what the index holds: the
\* gate is held across them, and a selection is read again before it is used.
EvidenceStaysCurrent ==
    reading => \A h \in ToSet(run.evidence) : stored[h.id] = h.v

Reviewed == run.path # <<>> /\ run.path[1] = "retrieve" /\ run.failure # "node_error"

\* Evidence of a selection: what the reviewer excluded is not in it, what they pinned
\* precedes the rest and keeps the order given.
SelectionHonoured ==
    Reviewed /\ req.selection # None =>
        LET rank(h) == IF h.id \in ToSet(req.selection.pinned)
                       THEN CHOOSE i \in DOMAIN req.selection.pinned : req.selection.pinned[i] = h.id
                       ELSE K + 1
        IN  /\ Ids(run.evidence) \cap req.selection.excluded = {}
            /\ \A i, j \in DOMAIN run.evidence : i < j => rank(run.evidence[i]) <= rank(run.evidence[j])

\* Every pinned chunk that was accepted is evidence, as runtime.py:1020 describes it.  It does
\* not hold: acceptance and prompt measure different texts (see README).
PinnedIsEvidence ==
    Reviewed /\ req.selection # None => ToSet(req.selection.pinned) \subseteq Ids(run.evidence)

\* The requests in a list of steps.
Sent(steps) ==
    LET sent[i \in 0 .. Len(steps)] == IF i = 0 THEN 0 ELSE sent[i - 1] + steps[i].requests
    IN  sent[Len(steps)]

\* The steps of a stored run account for every grade and check request that was sent,
\* whether the node succeeded, was repaired, refused or denied, unless its code raised.
RequestsAreTraced == record # None /\ run.failure # "node_error" => Sent(record.steps) = billed

\* A stored success never used more than the configured and the requested limits.
SuccessWithinBudget ==
    record # None /\ record.status = "ok" =>
        /\ run.in <= Least(InputCap, RunInput) /\ run.out <= Least(OutputCap, RunOutput)
        /\ run.in + run.out <= CostCap

DeniedAnswer == answer # None /\ answer.type = "error" /\ answer.what = "denied"

\* A denial that reaches the client after a grade or check request was sent has its run
\* on record.
DeniedRunIsKept ==
    DeniedAnswer /\ billed > 0 =>
        record # None /\ record.status = "budget_exceeded"

\* A stream that tells of a report told every node of the stored run before it, once and
\* in order, and the candidates first; it has one terminal event, the last but the end.
StreamTellsTheRun ==
    LET places(e) == {i \in DOMAIN events : events[i].event = e}
        told == SubSeq(events, 1 + Cardinality(places("candidates")), Len(events) - 2)
    IN  /\ places("candidates") \subseteq {1}
        /\ \A i \in places("report") \cup places("error") : i = Len(events) - 1
        /\ \A i \in places("end") : i - 1 \in places("report") \cup places("error")
        /\ places("report") # {} =>
               /\ record # None
               /\ [i \in DOMAIN told |-> told[i].node] =
                     (IF record.path = <<"gate">> THEN <<>> ELSE record.path)

\* A stream that started ends, or the client left and its producer is gone.
StreamEnds == client = "reading" ~> client = "away"

\* An update waits for the admitted searches, never for ones that come later.
UpdateGetsIn == updating ~> ~updating
=============================================================================

----------------------------- MODULE DlqReplay ------------------------------
(***************************************************************************)
(* The replay of permanently failed deliveries: POST                       *)
(* /v1/dlq/{id}/replay and POST /v1/dlq/replay, each a sequence of         *)
(* statements of its own, beside the pipeline that moves the deliveries.   *)
(*                                                                         *)
(* Of a delivery only the status, the delivery it replays and the endpoint *)
(* matter here. An operator's call is one request of one of the two kinds; *)
(* a filter is the set of the endpoints it names or whose tenant it names. *)
(***************************************************************************)
EXTENDS DeliveryStore, FiniteSets

CONSTANTS Deliveries,
          Originals,    \* the deliveries of submitted events; the others are replays to come
          NoDelivery,
          Endpoints,
          EndpointOf,   \* the endpoint of each original
          Filters,
          Calls,
          Faults,       \* "redelivery", "get"
          MaxRepeats    \* bound: deliveries with a message delivered again

ASSUME NamesAssumption == NoDelivery \notin Deliveries
ASSUME OriginalsAssumption == /\ Originals \subseteq Deliveries
                              /\ EndpointOf \in [Originals -> Endpoints]
                              /\ Filters \subseteq SUBSET Endpoints
ASSUME EndpointsAssumption == Endpoints # {}
ASSUME RepeatsAssumption == MaxRepeats \in Nat

VARIABLES delivery,  \* table deliveries
          call       \* the calls of Replay and BulkReplay

vars == <<delivery, call>>

\* repeated is history: a message of the delivery was processed after it had ended.
ReplayRow == [status: Statuses, source: Deliveries \cup {NoDelivery}, endpoint: Endpoints,
              repeated: BOOLEAN]

Pcs == {"new", "get", "endpoint", "create", "list", "check", "read", "insert", "done"}

Answers == {"none", "accepted", "not_found", "conflict", "error"}

\* target: the delivery to replay; ids: the snapshot of BulkReplay and todo what is
\* left of it; made: the replays the call has created. skipped (IDs whose read failed),
\* before (deliveries that were terminal when the snapshot was taken) and after (calls
\* that had ended when this one began) are history.
Call == [pc: Pcs, target: Deliveries \cup {NoDelivery}, filter: Filters \cup {{}},
         ids: SUBSET Deliveries, todo: SUBSET Deliveries, made: SUBSET Deliveries,
         answer: Answers, skipped: SUBSET Deliveries, before: SUBSET Deliveries,
         after: SUBSET Calls]

NewCall == [pc |-> "new", target |-> NoDelivery, filter |-> {}, ids |-> {}, todo |-> {},
            made |-> {}, answer |-> "none", skipped |-> {}, before |-> {}, after |-> {}]

TypeOK == delivery \in [Deliveries -> ReplayRow] /\ call \in [Calls -> Call]

\* Originals are in any status.
Init ==
  /\ \E status \in [Originals -> Statuses \ {"absent"}] :
       delivery = [d \in Deliveries |->
                     IF d \in Originals
                       THEN [status |-> status[d], source |-> NoDelivery,
                             endpoint |-> EndpointOf[d], repeated |-> FALSE]
                       ELSE [status |-> "absent", source |-> NoDelivery,
                             endpoint |-> CHOOSE e \in Endpoints : TRUE,
                             repeated |-> FALSE]]
  /\ call = [c \in Calls |-> NewCall]

Becomes(c, new) == call' = [call EXCEPT ![c] = new]

Ends(c, answer) == Becomes(c, [call[c] EXCEPT !.pc = "done", !.answer = answer])

Ended == {c \in Calls : call[c].pc = "done"}

\* The non-terminal replays of s.
ActiveReplays(s) == {d \in Deliveries : delivery[d].source = s /\ IsNonTerminal(delivery[d])}

\* HasNonTerminalReplay.
HasNonTerminalReplay(s) == ActiveReplays(s) # {}

\* Mutant of IndexAdmits: the index covers scheduled replays only.
IndexAdmits_ScheduledOnly(d, s) ==
  s # NoDelivery => \A e \in ActiveReplays(s) \ {d} : delivery[e].status # "scheduled"

\* idx_deliveries_one_active_replay: d may become non-terminal as a replay of s.
IndexAdmits(d, s) == s # NoDelivery => ActiveReplays(s) \subseteq {d}

-----------------------------------------------------------------------------
(* CreateReplay, for the target of c. `pc` is where the call goes on.      *)

CreateReplay(c, pc, answer) ==
  \E d \in Deliveries :
    /\ delivery[d].status = "absent"
    /\ IndexAdmits(d, call[c].target)
    /\ delivery' = [delivery EXCEPT ![d] = [status |-> "scheduled", source |-> call[c].target,
                                            endpoint |-> delivery[call[c].target].endpoint,
                                            repeated |-> delivery[d].repeated]]
    /\ Becomes(c, [call[c] EXCEPT !.pc = pc, !.answer = answer, !.made = @ \cup {d}])

\* The INSERT fails with unique_violation (23505).
UniqueViolation(c) == HasNonTerminalReplay(call[c].target)

-----------------------------------------------------------------------------
(* Replay                                                                  *)

StartReplay(c, d) ==
  /\ call[c].pc = "new"
  /\ Becomes(c, [call[c] EXCEPT !.pc = "get", !.target = d, !.after = Ended])
  /\ UNCHANGED delivery

\* Mutant of GetForReplay: any delivery that exists can be replayed.
GetForReplay_AnyStatus(c) ==
  /\ call[c].pc = "get"
  /\ IF delivery[call[c].target].status = "absent"
       THEN Ends(c, "not_found")
       ELSE Becomes(c, [call[c] EXCEPT !.pc = "endpoint"])
  /\ UNCHANGED delivery

\* Mutant of GetForReplay: a delivery in progress has an answer of its own.
GetForReplay_Busy(c) ==
  /\ call[c].pc = "get"
  /\ IF delivery[call[c].target].status \in {"scheduled", "in_flight"}
       THEN Ends(c, "busy")
       ELSE Becomes(c, [call[c] EXCEPT !.pc = "endpoint"])
  /\ UNCHANGED delivery

\* GetByID and the check of the status.
GetForReplay(c) ==
  LET status == delivery[call[c].target].status
  IN /\ call[c].pc = "get"
     /\ \/ status = "absent" /\ Ends(c, "not_found")
        \/ status \notin {"absent", "permanently_failed"} /\ Ends(c, "conflict")
        \/ status = "permanently_failed" /\ Becomes(c, [call[c] EXCEPT !.pc = "endpoint"])
     /\ UNCHANGED delivery

\* Deliveries reference their endpoint and nothing deletes one: it is found.
GetEndpoint(c) ==
  /\ call[c].pc = "endpoint"
  /\ Becomes(c, [call[c] EXCEPT !.pc = "create"])
  /\ UNCHANGED delivery

FinishReplay(c) ==
  /\ call[c].pc = "create"
  /\ \/ CreateReplay(c, "done", "accepted")
     \/ UniqueViolation(c) /\ Ends(c, "conflict") /\ UNCHANGED delivery

-----------------------------------------------------------------------------
(* BulkReplay                                                              *)

\* The filter names a tenant or an endpoint that exists.
StartBulkReplay(c, f) ==
  /\ call[c].pc = "new"
  /\ Becomes(c, [call[c] EXCEPT !.pc = "list", !.filter = f, !.after = Ended])
  /\ UNCHANGED delivery

\* ListPermanentlyFailedIDs.
PermanentlyFailedIDs(f) ==
  {d \in Deliveries : delivery[d].status = "permanently_failed" /\ delivery[d].endpoint \in f}

ListIDs(c) ==
  LET ids == PermanentlyFailedIDs(call[c].filter)
  IN /\ call[c].pc = "list"
     /\ Becomes(c, [call[c] EXCEPT !.pc = "check", !.ids = ids, !.todo = ids,
                                   !.before = {d \in Deliveries : IsTerminal(delivery[d])}])
     /\ UNCHANGED delivery

\* Mutant of NextID: an ID that is skipped stays on the list.
NextID_NotRemoved(c) ==
  /\ call[c].pc = "check"
  /\ IF call[c].todo = {}
       THEN Ends(c, "accepted")
       ELSE \E d \in call[c].todo :
              IF HasNonTerminalReplay(d)
                THEN Becomes(c, [call[c] EXCEPT !.target = d])
                ELSE Becomes(c, [call[c] EXCEPT !.pc = "read", !.target = d, !.todo = @ \ {d}])
  /\ UNCHANGED delivery

\* Mutant of NextID: an ID that was ever replayed is skipped.
NextID_EverReplayed(c) ==
  /\ call[c].pc = "check"
  /\ IF call[c].todo = {}
       THEN Ends(c, "accepted")
       ELSE \E d \in call[c].todo :
              Becomes(c, [call[c] EXCEPT !.pc = IF \E e \in Deliveries : delivery[e].source = d
                                                  THEN "check" ELSE "read",
                                         !.target = d, !.todo = @ \ {d}])
  /\ UNCHANGED delivery

\* The next ID of the snapshot (the SELECT has no ORDER BY); it is skipped when it
\* has a non-terminal replay.
NextID(c) ==
  /\ call[c].pc = "check"
  /\ \/ call[c].todo = {} /\ Ends(c, "accepted")
     \/ \E d \in call[c].todo :
          Becomes(c, [call[c] EXCEPT !.pc = IF HasNonTerminalReplay(d) THEN "check" ELSE "read",
                                     !.target = d, !.todo = @ \ {d}])
  /\ UNCHANGED delivery

\* GetByID, whose result gives event and endpoint; the status is not looked at.
ReadID(c) ==
  /\ call[c].pc = "read"
  /\ Becomes(c, [call[c] EXCEPT !.pc = "insert"])
  /\ UNCHANGED delivery

\* GetByID fails: the ID is passed over.
ReadIDFails(c) ==
  /\ "get" \in Faults
  /\ call[c].pc = "read"
  /\ Becomes(c, [call[c] EXCEPT !.pc = "check", !.skipped = @ \cup {call[c].target}])
  /\ UNCHANGED delivery

InsertID(c) ==
  /\ call[c].pc = "insert"
  /\ \/ CreateReplay(c, "check", "none")
     \/ /\ UniqueViolation(c)
        /\ Becomes(c, [call[c] EXCEPT !.pc = "check"])
        /\ UNCHANGED delivery

\* Another statement fails, or the client goes away. What was inserted stays.
Fail(c) ==
  /\ call[c].pc \notin {"new", "done"}
  /\ Ends(c, "error")
  /\ UNCHANGED delivery

-----------------------------------------------------------------------------
(* The pipeline                                                            *)

SetStatus(d, status) ==
  /\ delivery' = [delivery EXCEPT ![d].status = status]
  /\ UNCHANGED call

Claim(d) == delivery[d].status = "scheduled" /\ SetStatus(d, "in_flight")

\* The outcome of an attempt, or the resurrection of an expired lease.
Outcome(d, status) == delivery[d].status = "in_flight" /\ SetStatus(d, status)

\* A message delivered again is processed whatever the status of the delivery has
\* become: the outcome replaces it, unless the index refuses the row.
Redelivered(d, status) ==
  /\ "redelivery" \in Faults
  /\ IsTerminal(delivery[d])
  /\ status = "scheduled" => IndexAdmits(d, delivery[d].source)
  /\ Cardinality({e \in Deliveries : delivery[e].repeated}) < MaxRepeats
  /\ delivery' = [delivery EXCEPT ![d].status = status, ![d].repeated = TRUE]
  /\ UNCHANGED call

-----------------------------------------------------------------------------

CallNext(c) ==
  \/ GetForReplay(c) \/ GetEndpoint(c) \/ FinishReplay(c)
  \/ ListIDs(c) \/ NextID(c) \/ ReadID(c) \/ InsertID(c)

Next ==
  \/ \E c \in Calls : CallNext(c) \/ ReadIDFails(c) \/ Fail(c)
  \/ \E c \in Calls, d \in Deliveries : StartReplay(c, d)
  \/ \E c \in Calls, f \in Filters : StartBulkReplay(c, f)
  \/ \E d \in Deliveries : Claim(d)
  \/ \E d \in Deliveries, status \in TerminalStatuses \cup {"scheduled"} :
       Outcome(d, status) \/ Redelivered(d, status)

Spec == Init /\ [][Next]_vars

\* The statements of a call return.
FairSpec == Spec /\ \A c \in Calls : WF_vars(CallNext(c))

-----------------------------------------------------------------------------
(* Properties                                                              *)

\* SC-005 of 004-dlq-replay: however replays, bulk replays and repeated messages
\* interleave, a delivery has at most one replay that is scheduled or in flight
\* (dlq_service.go:149, 203).
OneActiveReplay ==
  \A s, d, e \in Deliveries : d \in ActiveReplays(s) /\ e \in ActiveReplays(s) => d = e

\* d is permanently failed, or a repeated message has moved it since.
Failed(d) == delivery[d].status = "permanently_failed" \/ delivery[d].repeated

\* Scenario 1 of user story 3 of 004-dlq-replay: a delivery that has a replay is
\* permanently failed and remains so, although the status is checked before the INSERT
\* and not with it (dlq_service.go:138, 183). Only a message of the source that the
\* worker processes once more can change it.
SourceFailed ==
  \A d \in Deliveries : delivery[d].source # NoDelivery => Failed(delivery[d].source)

\* Scenarios 1 and 4 of user story 4 of 004-dlq-replay: when BulkReplay is accepted,
\* every delivery of its snapshot has a replay that was under way during the call
\* (dlq_service.go:183-213), except those whose GetByID failed, which are passed over
\* (:200). A replay that was terminal at the snapshot counts only if a repeated message
\* has set it going again.
BulkCovered ==
  \A c \in Calls : call[c].answer = "accepted" =>
    \A s \in call[c].ids \ call[c].skipped :
      \E d \in Deliveries : /\ delivery[d].source = s
                            /\ d \in call[c].before => delivery[d].repeated

\* A call that began is answered, although other calls and the pipeline add to the
\* deliveries it would list (dlq_service.go:183, 189).
CallsEnd == \A c \in Calls : call[c].pc # "new" ~> call[c].pc = "done"

\* 004-dlq-replay, plan.md:354: a bulk replay made after one that was cut off creates
\* no replay of a delivery the first one has replayed already.
RetryCreatesNoDuplicate ==
  \A c \in Calls : \A b \in call[c].after :
    call[b].answer = "error" /\ call[b].ids # {} /\ call[c].ids # {} =>
      \A d \in call[c].made, e \in call[b].made : delivery[d].source # delivery[e].source
=============================================================================

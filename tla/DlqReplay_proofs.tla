-------------------------- MODULE DlqReplay_proofs --------------------------
(***************************************************************************)
(* For every number of deliveries, endpoints and calls: a delivery has one *)
(* active replay at most, and once it has a replay it stays permanently    *)
(* failed, unless one of its own messages is processed again. A bulk       *)
(* replay that is accepted has replayed what it listed.                    *)
(***************************************************************************)
EXTENDS DlqReplay, TLAPS

\* A call that has chosen a target has one.
TargetChosen ==
  \A c \in Calls : call[c].pc \in {"get", "endpoint", "create", "read", "insert"}
                     => call[c].target \in Deliveries

\* What a call is about to replay, or has listed, was and is permanently failed.
TargetFailed ==
  \A c \in Calls :
    /\ call[c].pc \in {"endpoint", "create", "read", "insert"} => Failed(call[c].target)
    /\ call[c].pc \in {"check", "read", "insert"} => \A d \in call[c].todo : Failed(d)

ReplayInv == TypeOK /\ TargetChosen /\ OneActiveReplay

-----------------------------------------------------------------------------

\* A call that has not begun is a call.
LEMMA NewIsCall == NewCall \in Call
BY DEF NewCall, Call, Pcs, Answers

\* Updating one call, and creating a replay, keep the types.
LEMMA UpdateTypes ==
  ASSUME TypeOK, NEW c \in Calls, NEW new \in Call, Becomes(c, new)
  PROVE  call' \in [Calls -> Call]
BY DEF TypeOK, Becomes

\* What an INSERT of c with its target does.
LEMMA CreateFacts ==
  ASSUME TypeOK, TargetChosen, NEW c \in Calls, call[c].pc \in {"create", "insert"},
         NEW pc \in {"check", "done"}, NEW answer \in {"none", "accepted"},
         CreateReplay(c, pc, answer)
  PROVE  \E d \in Deliveries :
           /\ delivery[d].status = "absent" /\ IndexAdmits(d, call[c].target)
           /\ call[c].target \in Deliveries
           /\ delivery' \in [Deliveries -> ReplayRow]
           /\ delivery'[d].status = "scheduled" /\ delivery'[d].source = call[c].target
           /\ delivery'[d].repeated = delivery[d].repeated
           /\ \A e \in Deliveries : e # d => delivery'[e] = delivery[e]
           /\ call' \in [Calls -> Call]
           /\ call'[c].pc = pc /\ call'[c].target = call[c].target
           /\ call'[c].todo = call[c].todo
           /\ \A b \in Calls : b # c => call'[b] = call[b]
<1>1. call[c].target \in Deliveries
  BY DEF TargetChosen
<1> DEFINE row(d) == [status |-> "scheduled", source |-> call[c].target,
                      endpoint |-> delivery[call[c].target].endpoint,
                      repeated |-> delivery[d].repeated]
<1>2. PICK d \in Deliveries :
        /\ delivery[d].status = "absent" /\ IndexAdmits(d, call[c].target)
        /\ delivery' = [delivery EXCEPT ![d] = row(d)]
        /\ Becomes(c, [call[c] EXCEPT !.pc = pc, !.answer = answer, !.made = @ \cup {d}])
  BY Zenon DEF CreateReplay
<1>3. row(d) \in ReplayRow
  BY <1>1 DEF TypeOK, ReplayRow, Statuses
<1>4. delivery' \in [Deliveries -> ReplayRow] /\ delivery'[d] = row(d)
      /\ \A e \in Deliveries : e # d => delivery'[e] = delivery[e]
  <2> HIDE DEF row
  <2> QED
    BY <1>2, <1>3 DEF TypeOK
<1>5. [call[c] EXCEPT !.pc = pc, !.answer = answer, !.made = call[c].made \cup {d}] \in Call
  <2>1. call[c] \in Call
    BY DEF TypeOK
  <2>2. call[c].made \cup {d} \in SUBSET Deliveries
    BY <2>1 DEF Call
  <2> DEFINE made == call[c].made \cup {d}
  <2> HIDE DEF made
  <2>3. [call[c] EXCEPT !.pc = pc, !.answer = answer, !.made = made] \in Call
    BY <2>1, <2>2 DEF made, Call, Pcs, Answers
  <2>4. QED
    BY <2>3 DEF made
<1>6. call' \in [Calls -> Call]
  BY <1>2, <1>5, UpdateTypes
<1>7. /\ call'[c].pc = pc /\ call'[c].target = call[c].target /\ call'[c].todo = call[c].todo
      /\ \A b \in Calls : b # c => call'[b] = call[b]
  BY <1>2 DEF Becomes, TypeOK, Call
<1>8. QED
  BY <1>1, <1>2, <1>4, <1>6, <1>7

\* The steps of a call that change no delivery.
Reads(c) ==
  /\ UNCHANGED delivery
  /\ call' \in [Calls -> Call]
  /\ \A b \in Calls : b # c => call'[b] = call[b]
  /\ call'[c].pc \in {"get", "endpoint", "create", "read", "insert"}
       => call'[c].target \in Deliveries

\* The call steps: what each leaves in the fields the invariants speak of.
LEMMA ReadFacts ==
  ASSUME ReplayInv, NEW c \in Calls
  PROVE  /\ \A d \in Deliveries : StartReplay(c, d) => Reads(c) /\ call'[c].pc = "get"
         /\ \A f \in Filters : StartBulkReplay(c, f) => Reads(c) /\ call'[c].pc = "list"
         /\ GetForReplay(c) =>
              /\ Reads(c) /\ call'[c].target = call[c].target
              /\ \/ call'[c].pc = "done"
                 \/ /\ call'[c].pc = "endpoint"
                    /\ delivery[call[c].target].status = "permanently_failed"
         /\ GetEndpoint(c) =>
              /\ Reads(c) /\ call'[c].target = call[c].target
              /\ call[c].pc = "endpoint" /\ call'[c].pc = "create"
         /\ ListIDs(c) =>
              /\ Reads(c) /\ call'[c].pc = "check"
              /\ call'[c].todo = PermanentlyFailedIDs(call[c].filter)
         /\ NextID(c) =>
              /\ Reads(c) /\ call[c].pc = "check"
              /\ \/ call'[c].pc = "done"
                 \/ /\ call'[c].pc \in {"check", "read"}
                    /\ call'[c].target \in call[c].todo
                    /\ call'[c].todo \subseteq call[c].todo
         /\ ReadID(c) \/ ReadIDFails(c) =>
              /\ Reads(c) /\ call'[c].target = call[c].target
              /\ call'[c].todo = call[c].todo
              /\ call[c].pc = "read" /\ call'[c].pc \in {"check", "insert"}
         /\ Fail(c) => Reads(c) /\ call'[c].pc = "done"
         /\ FinishReplay(c) => /\ call[c].pc = "create"
                               /\ \/ CreateReplay(c, "done", "accepted")
                                  \/ Reads(c) /\ call'[c].pc = "done"
         /\ InsertID(c) => /\ call[c].pc = "insert"
                           /\ \/ CreateReplay(c, "check", "none")
                              \/ /\ Reads(c) /\ call'[c].pc = "check"
                                 /\ call'[c].todo = call[c].todo
<1> USE DEF ReplayInv
<1>1. call[c] \in Call
  BY DEF TypeOK
<1>2. Ended \in SUBSET Calls
  BY DEF Ended
<1>3. ASSUME NEW d \in Deliveries, StartReplay(c, d)
      PROVE  Reads(c) /\ call'[c].pc = "get"
  <2>1. [call[c] EXCEPT !.pc = "get", !.target = d, !.after = Ended] \in Call
    BY <1>1, <1>2 DEF Call, Pcs
  <2>2. QED
    BY <1>1, <1>3, <2>1 DEF StartReplay, Becomes, Reads, TypeOK, Call
<1>4. ASSUME NEW f \in Filters, StartBulkReplay(c, f)
      PROVE  Reads(c) /\ call'[c].pc = "list"
  <2>1. [call[c] EXCEPT !.pc = "list", !.filter = f, !.after = Ended] \in Call
    BY <1>1, <1>2 DEF Call, Pcs
  <2>2. QED
    BY <1>1, <1>4, <2>1 DEF StartBulkReplay, Becomes, Reads, TypeOK, Call
<1>5. \A answer \in Answers :
        Ends(c, answer) /\ UNCHANGED delivery =>
          Reads(c) /\ call'[c].pc = "done" /\ call'[c].target = call[c].target
  <2> TAKE answer \in Answers
  <2>1. [call[c] EXCEPT !.pc = "done", !.answer = answer] \in Call
    BY <1>1 DEF Call, Pcs
  <2>2. QED
    BY <1>1, <2>1 DEF Ends, Becomes, Reads, TypeOK, Call
<1>6. \A pc \in Pcs :
        Becomes(c, [call[c] EXCEPT !.pc = pc]) /\ UNCHANGED delivery =>
          /\ call' \in [Calls -> Call] /\ \A b \in Calls : b # c => call'[b] = call[b]
          /\ call'[c].pc = pc /\ call'[c].target = call[c].target /\ call'[c].todo = call[c].todo
  <2> TAKE pc \in Pcs
  <2>1. [call[c] EXCEPT !.pc = pc] \in Call
    BY <1>1 DEF Call
  <2>2. QED
    BY <1>1, <2>1 DEF Becomes, TypeOK, Call
<1>7. ASSUME GetForReplay(c)
      PROVE  /\ Reads(c) /\ call'[c].target = call[c].target
             /\ \/ call'[c].pc = "done"
                \/ /\ call'[c].pc = "endpoint"
                   /\ delivery[call[c].target].status = "permanently_failed"
  <2>1. call[c].target \in Deliveries /\ UNCHANGED delivery
    BY <1>7 DEF GetForReplay, TargetChosen
  <2>2. CASE Ends(c, "not_found") \/ Ends(c, "conflict")
    BY <1>5, <2>1, <2>2 DEF Answers
  <2>3. CASE /\ delivery[call[c].target].status = "permanently_failed"
             /\ Becomes(c, [call[c] EXCEPT !.pc = "endpoint"])
    BY <1>6, <2>1, <2>3 DEF Pcs, Reads
  <2>4. QED
    BY <1>7, <2>2, <2>3 DEF GetForReplay
<1>8. ASSUME GetEndpoint(c)
      PROVE  /\ Reads(c) /\ call'[c].target = call[c].target
             /\ call[c].pc = "endpoint" /\ call'[c].pc = "create"
  <2>1. call[c].target \in Deliveries /\ call[c].pc = "endpoint" /\ UNCHANGED delivery
    BY <1>8 DEF GetEndpoint, TargetChosen
  <2>2. QED
    BY <1>6, <1>8, <2>1 DEF GetEndpoint, Pcs, Reads
<1>9. ASSUME ListIDs(c)
      PROVE  /\ Reads(c) /\ call'[c].pc = "check"
             /\ call'[c].todo = PermanentlyFailedIDs(call[c].filter)
  <2> DEFINE ids == PermanentlyFailedIDs(call[c].filter)
             before == {d \in Deliveries : IsTerminal(delivery[d])}
  <2>1. ids \in SUBSET Deliveries /\ before \in SUBSET Deliveries
    BY DEF PermanentlyFailedIDs
  <2>2. Becomes(c, [call[c] EXCEPT !.pc = "check", !.ids = ids, !.todo = ids, !.before = before])
        /\ UNCHANGED delivery
    BY <1>9 DEF ListIDs
  <2> HIDE DEF ids, before
  <2>3. [call[c] EXCEPT !.pc = "check", !.ids = ids, !.todo = ids, !.before = before] \in Call
    BY <1>1, <2>1 DEF Call, Pcs
  <2>4. Reads(c) /\ call'[c].pc = "check" /\ call'[c].todo = ids
    BY <1>1, <2>2, <2>3 DEF Becomes, Reads, TypeOK, Call
  <2>5. QED
    BY <2>4 DEF ids
<1>10. ASSUME NextID(c)
       PROVE  /\ Reads(c) /\ call[c].pc = "check"
              /\ \/ call'[c].pc = "done"
                 \/ /\ call'[c].pc \in {"check", "read"}
                    /\ call'[c].target \in call[c].todo
                    /\ call'[c].todo \subseteq call[c].todo
  <2>1. UNCHANGED delivery /\ call[c].pc = "check"
    BY <1>10 DEF NextID
  <2>2. CASE Ends(c, "accepted")
    BY <1>5, <2>1, <2>2 DEF Answers
  <2>3. ASSUME NEW d \in call[c].todo, NEW pc \in {"check", "read"},
               Becomes(c, [call[c] EXCEPT !.pc = pc, !.target = d, !.todo = call[c].todo \ {d}])
        PROVE  /\ Reads(c) /\ call'[c].pc = pc /\ call'[c].target = d
               /\ call'[c].todo \subseteq call[c].todo
    <3> DEFINE rest == call[c].todo \ {d}
    <3>1. rest \in SUBSET Deliveries /\ d \in Deliveries /\ rest \subseteq call[c].todo
      BY <1>1 DEF Call
    <3>2. Becomes(c, [call[c] EXCEPT !.pc = pc, !.target = d, !.todo = rest])
      BY <2>3
    <3> HIDE DEF rest
    <3>3. [call[c] EXCEPT !.pc = pc, !.target = d, !.todo = rest] \in Call
      BY <1>1, <3>1 DEF Call, Pcs
    <3>4. QED
      BY <1>1, <2>1, <3>1, <3>2, <3>3 DEF Becomes, Reads, TypeOK, Call
  <2>4. Ends(c, "accepted") \/
        \E d \in call[c].todo, pc \in {"check", "read"} :
          Becomes(c, [call[c] EXCEPT !.pc = pc, !.target = d, !.todo = call[c].todo \ {d}])
    BY <1>10 DEF NextID
  <2>5. QED
    BY <2>1, <2>2, <2>3, <2>4
<1>11. ASSUME ReadID(c) \/ ReadIDFails(c)
       PROVE  /\ Reads(c) /\ call'[c].target = call[c].target
              /\ call'[c].todo = call[c].todo
              /\ call[c].pc = "read" /\ call'[c].pc \in {"check", "insert"}
  <2>1. call[c].target \in Deliveries /\ UNCHANGED delivery /\ call[c].pc = "read"
    BY <1>11 DEF ReadID, ReadIDFails, TargetChosen
  <2>2. CASE ReadID(c)
    BY <1>6, <2>1, <2>2 DEF ReadID, Pcs, Reads
  <2>3. CASE ReadIDFails(c)
    <3> DEFINE skipped == call[c].skipped \cup {call[c].target}
    <3>1. skipped \in SUBSET Deliveries
      BY <1>1, <2>1 DEF Call
    <3>2. Becomes(c, [call[c] EXCEPT !.pc = "check", !.skipped = skipped])
      BY <2>3 DEF ReadIDFails
    <3> HIDE DEF skipped
    <3>3. [call[c] EXCEPT !.pc = "check", !.skipped = skipped] \in Call
      BY <1>1, <3>1 DEF Call, Pcs
    <3>4. QED
      BY <1>1, <2>1, <3>2, <3>3 DEF Becomes, Reads, TypeOK, Call
  <2>4. QED
    BY <1>11, <2>2, <2>3
<1>12. ASSUME Fail(c)
       PROVE  Reads(c) /\ call'[c].pc = "done"
  BY <1>5, <1>12 DEF Fail, Answers
<1>13. FinishReplay(c) => /\ call[c].pc = "create"
                          /\ \/ CreateReplay(c, "done", "accepted")
                             \/ Reads(c) /\ call'[c].pc = "done"
  BY <1>5 DEF FinishReplay, Answers
<1>14. InsertID(c) => /\ call[c].pc = "insert"
                      /\ \/ CreateReplay(c, "check", "none")
                         \/ /\ Reads(c) /\ call'[c].pc = "check"
                            /\ call'[c].todo = call[c].todo
  BY <1>6 DEF InsertID, Pcs, Reads
<1>15. QED
  BY <1>3, <1>4, <1>7, <1>8, <1>9, <1>10, <1>11, <1>12, <1>13, <1>14

\* What the pipeline may do to a delivery.
PipelineStep(d, status) ==
  /\ UNCHANGED call /\ delivery' \in [Deliveries -> ReplayRow]
  /\ delivery'[d].status = status /\ delivery'[d].source = delivery[d].source
  /\ \A e \in Deliveries : e # d => delivery'[e] = delivery[e]
  /\ \/ /\ delivery[d].status = "scheduled" /\ status = "in_flight"
        /\ delivery'[d].repeated = delivery[d].repeated
     \/ /\ delivery[d].status = "in_flight"
        /\ delivery'[d].repeated = delivery[d].repeated
     \/ /\ status # "in_flight" /\ delivery'[d].repeated = TRUE
        /\ status = "scheduled" => IndexAdmits(d, delivery[d].source)

\* ClaimReady, the outcomes and the repeated messages are such steps.
LEMMA PipelineFacts ==
  ASSUME TypeOK, NEW d \in Deliveries
  PROVE  /\ Claim(d) => PipelineStep(d, "in_flight")
         /\ \A status \in TerminalStatuses \cup {"scheduled"} :
              Outcome(d, status) \/ Redelivered(d, status) => PipelineStep(d, status)
<1>1. ASSUME NEW status \in Statuses, SetStatus(d, status)
      PROVE  /\ UNCHANGED call /\ delivery' \in [Deliveries -> ReplayRow]
             /\ delivery'[d].status = status /\ delivery'[d].source = delivery[d].source
             /\ delivery'[d].repeated = delivery[d].repeated
             /\ \A e \in Deliveries : e # d => delivery'[e] = delivery[e]
  <2>1. delivery' = [delivery EXCEPT ![d] = [delivery[d] EXCEPT !.status = status]]
        /\ UNCHANGED call
    BY <1>1 DEF SetStatus
  <2>2. [delivery[d] EXCEPT !.status = status] \in ReplayRow
    BY DEF TypeOK, ReplayRow
  <2>3. QED
    BY <2>1, <2>2 DEF TypeOK, ReplayRow
<1>2. Claim(d) => PipelineStep(d, "in_flight")
  BY <1>1 DEF Claim, PipelineStep, Statuses
<1>3. ASSUME NEW status \in TerminalStatuses \cup {"scheduled"}, Outcome(d, status)
      PROVE  PipelineStep(d, status)
  BY <1>1, <1>3 DEF Outcome, PipelineStep, Statuses, TerminalStatuses
<1>4. ASSUME NEW status \in TerminalStatuses \cup {"scheduled"}, Redelivered(d, status)
      PROVE  PipelineStep(d, status)
  <2>1. /\ UNCHANGED call
        /\ status = "scheduled" => IndexAdmits(d, delivery[d].source)
        /\ delivery' = [delivery EXCEPT ![d] = [delivery[d] EXCEPT !.status = status,
                                                                  !.repeated = TRUE]]
    BY <1>4 DEF Redelivered
  <2>2. status \in Statuses /\ status # "in_flight"
    BY DEF Statuses, TerminalStatuses
  <2>3. /\ UNCHANGED call /\ delivery' \in [Deliveries -> ReplayRow]
        /\ delivery'[d].status = status /\ delivery'[d].source = delivery[d].source
        /\ delivery'[d].repeated = TRUE
        /\ \A e \in Deliveries : e # d => delivery'[e] = delivery[e]
    <3>1. [delivery[d] EXCEPT !.status = status, !.repeated = TRUE] \in ReplayRow
      BY <2>2 DEF TypeOK, ReplayRow
    <3>2. QED
      BY <2>1, <2>2, <3>1 DEF TypeOK, ReplayRow
  <2>4. QED
    BY <2>1, <2>2, <2>3 DEF PipelineStep
<1>5. QED
  BY <1>2, <1>3, <1>4

\* One active replay at most: the index guards what becomes active.
LEMMA OneActiveStep == ReplayInv /\ [Next]_vars => ReplayInv'
<1> SUFFICES ASSUME ReplayInv, [Next]_vars PROVE ReplayInv'
  OBVIOUS
<1> USE DEF ReplayInv
<1>1. ASSUME NEW c \in Calls, Reads(c) PROVE ReplayInv'
  <2>1. TypeOK' /\ TargetChosen'
    BY <1>1 DEF Reads, TypeOK, TargetChosen
  <2>2. OneActiveReplay'
    BY <1>1 DEF Reads, OneActiveReplay, ActiveReplays, IsNonTerminal
  <2>3. QED
    BY <2>1, <2>2
<1>2. ASSUME NEW c \in Calls, call[c].pc \in {"create", "insert"},
             NEW pc \in {"check", "done"}, NEW answer \in {"none", "accepted"},
             CreateReplay(c, pc, answer)
      PROVE  ReplayInv'
  <2>1. PICK d \in Deliveries :
          /\ delivery[d].status = "absent" /\ IndexAdmits(d, call[c].target)
          /\ call[c].target \in Deliveries
          /\ delivery' \in [Deliveries -> ReplayRow]
          /\ delivery'[d].status = "scheduled" /\ delivery'[d].source = call[c].target
          /\ \A e \in Deliveries : e # d => delivery'[e] = delivery[e]
          /\ call' \in [Calls -> Call]
          /\ call'[c].pc = pc
          /\ \A b \in Calls : b # c => call'[b] = call[b]
    BY <1>2, CreateFacts
  <2>2. TypeOK' /\ TargetChosen'
    BY <2>1 DEF TypeOK, TargetChosen
  <2>3. \A e \in Deliveries \ {d} :
          ~(/\ delivery[e].source = call[c].target
            /\ delivery[e].status \in {"scheduled", "in_flight"})
    BY <2>1, NamesAssumption DEF IndexAdmits, ActiveReplays, IsNonTerminal
  <2>4. OneActiveReplay'
    BY <2>1, <2>3 DEF OneActiveReplay, ActiveReplays, IsNonTerminal
  <2>5. QED
    BY <2>2, <2>4
<1>3. ASSUME NEW d \in Deliveries, NEW status \in Statuses, PipelineStep(d, status)
      PROVE  ReplayInv'
  <2>1. /\ UNCHANGED call /\ delivery' \in [Deliveries -> ReplayRow]
        /\ delivery'[d].status = status /\ delivery'[d].source = delivery[d].source
        /\ \A e \in Deliveries : e # d => delivery'[e] = delivery[e]
    BY <1>3 DEF PipelineStep
  <2>2. TypeOK' /\ TargetChosen'
    BY <2>1 DEF TypeOK, TargetChosen
  <2>3. OneActiveReplay'
    <3> SUFFICES ASSUME NEW s \in Deliveries, NEW a \in Deliveries, NEW b \in Deliveries,
                        (a \in ActiveReplays(s))', (b \in ActiveReplays(s))'
                 PROVE  a = b
      BY DEF OneActiveReplay
    <3>1. /\ delivery'[a].source = s /\ delivery'[a].status \in {"scheduled", "in_flight"}
          /\ delivery'[b].source = s /\ delivery'[b].status \in {"scheduled", "in_flight"}
      BY DEF ActiveReplays, IsNonTerminal
    <3>2. delivery[a].source = s /\ delivery[b].source = s
      BY <2>1, <3>1
    <3>3. CASE IsNonTerminal(delivery[d]) \/ ~(status \in {"scheduled", "in_flight"})
      <4>1. IsNonTerminal(delivery[a]) /\ IsNonTerminal(delivery[b])
        BY <2>1, <3>1, <3>3 DEF IsNonTerminal
      <4>2. QED
        BY <3>2, <4>1 DEF OneActiveReplay, ActiveReplays
    <3>4. CASE status = "scheduled" /\ IndexAdmits(d, delivery[d].source)
      <4>1. ASSUME NEW e \in Deliveries, e # d, delivery[e].source = s, delivery'[e] = delivery[e],
                   delivery'[e].status \in {"scheduled", "in_flight"}, delivery[d].source = s
            PROVE  FALSE
        BY <3>4, <4>1, NamesAssumption DEF IndexAdmits, ActiveReplays, IsNonTerminal
      <4>2. CASE a = d \/ b = d
        BY <2>1, <3>1, <3>2, <4>1, <4>2
      <4>3. CASE a # d /\ b # d
        <5>1. IsNonTerminal(delivery[a]) /\ IsNonTerminal(delivery[b])
          BY <2>1, <3>1, <4>3 DEF IsNonTerminal
        <5>2. QED
          BY <3>2, <5>1 DEF OneActiveReplay, ActiveReplays
      <4>4. QED
        BY <4>2, <4>3
    <3>5. QED
      BY <1>3, <3>3, <3>4 DEF PipelineStep, IsNonTerminal
  <2>4. QED
    BY <2>2, <2>3
<1>4. CASE UNCHANGED vars
  BY <1>4 DEF vars, TypeOK, TargetChosen, OneActiveReplay, ActiveReplays, IsNonTerminal
<1>5. \A status \in TerminalStatuses \cup {"scheduled", "in_flight"} : status \in Statuses
  BY DEF TerminalStatuses, Statuses
<1>6. QED
  BY <1>1, <1>2, <1>3, <1>4, <1>5, ReadFacts, PipelineFacts DEF Next, CallNext

\* The first states satisfy the invariant.
LEMMA InitReplay == Init => ReplayInv
<1> SUFFICES ASSUME Init PROVE ReplayInv
  OBVIOUS
<1>1. PICK status \in [Originals -> Statuses \ {"absent"}] :
        delivery = [d \in Deliveries |->
                      IF d \in Originals
                        THEN [status |-> status[d], source |-> NoDelivery,
                              endpoint |-> EndpointOf[d], repeated |-> FALSE]
                        ELSE [status |-> "absent", source |-> NoDelivery,
                              endpoint |-> CHOOSE e \in Endpoints : TRUE,
                              repeated |-> FALSE]]
  BY Zenon DEF Init
<1>2. (CHOOSE e \in Endpoints : TRUE) \in Endpoints
  BY EndpointsAssumption
<1>3. delivery \in [Deliveries -> ReplayRow]
  BY <1>1, <1>2, OriginalsAssumption DEF ReplayRow, Statuses
<1>4. TypeOK /\ TargetChosen
  BY <1>3, NewIsCall DEF Init, TypeOK, TargetChosen, NewCall
<1>5. OneActiveReplay
  BY <1>1, NamesAssumption DEF OneActiveReplay, ActiveReplays
<1>6. QED
  BY <1>4, <1>5 DEF ReplayInv

\* SC-005 of 004-dlq-replay for every number of operators' calls and deliveries: the
\* index leaves a delivery one scheduled or in-flight replay, whatever interleaves.
THEOREM OneActiveReplayHolds == Spec => []OneActiveReplay
<1>1. Init => ReplayInv
  BY InitReplay
<1>2. ReplayInv => OneActiveReplay
  BY DEF ReplayInv
<1>3. QED
  BY <1>1, <1>2, OneActiveStep, PTL DEF Spec

\* Every reachable state of calls and replays is well typed.
THEOREM ReplayTypeCorrect == Spec => []TypeOK
<1>1. Init => ReplayInv
  BY InitReplay
<1>2. ReplayInv => TypeOK
  BY DEF ReplayInv
<1>3. QED
  BY <1>1, <1>2, OneActiveStep, PTL DEF Spec

-----------------------------------------------------------------------------

FailedInv == ReplayInv /\ TargetFailed /\ SourceFailed

\* Only a repeated message leaves permanently_failed, so that what a call has checked
\* still holds when it inserts.
LEMMA FailedStep == FailedInv /\ [Next]_vars => FailedInv'
<1> SUFFICES ASSUME FailedInv, [Next]_vars PROVE FailedInv'
  OBVIOUS
<1>1. ReplayInv /\ ReplayInv' /\ TypeOK
  BY OneActiveStep DEF FailedInv, ReplayInv
<1>2. \A c \in Calls : call[c].todo \subseteq Deliveries
  BY <1>1 DEF TypeOK, Call
<1>3. ASSUME NEW c \in Calls, Reads(c),
             call'[c].pc \in {"endpoint", "create", "read", "insert"} => Failed(call'[c].target),
             call'[c].pc \in {"check", "read", "insert"} => \A d \in call'[c].todo : Failed(d)
      PROVE  FailedInv'
  <2>1. TargetFailed'
    BY <1>3 DEF FailedInv, TargetFailed, Failed, Reads
  <2>2. SourceFailed'
    BY <1>3 DEF FailedInv, SourceFailed, Failed, Reads
  <2>3. QED
    BY <1>1, <2>1, <2>2 DEF FailedInv
<1>4. ASSUME NEW c \in Calls, call[c].pc \in {"create", "insert"},
             NEW pc \in {"check", "done"}, NEW answer \in {"none", "accepted"},
             CreateReplay(c, pc, answer), pc = "check" => call[c].pc = "insert"
      PROVE  FailedInv'
  <2>1. PICK d \in Deliveries :
          /\ delivery[d].status = "absent" /\ call[c].target \in Deliveries
          /\ delivery'[d].source = call[c].target
          /\ delivery'[d].repeated = delivery[d].repeated
          /\ \A e \in Deliveries : e # d => delivery'[e] = delivery[e]
          /\ call'[c].pc = pc /\ call'[c].todo = call[c].todo
          /\ \A b \in Calls : b # c => call'[b] = call[b]
    BY <1>1, <1>4, CreateFacts DEF ReplayInv
  <2>2. \A e \in Deliveries : Failed(e) => Failed(e)'
    BY <2>1 DEF Failed
  <2>3. TargetFailed'
    <3> SUFFICES ASSUME NEW b \in Calls
                 PROVE  /\ call'[b].pc \in {"endpoint", "create", "read", "insert"}
                             => Failed(call[b].target)'
                        /\ call'[b].pc \in {"check", "read", "insert"}
                             => \A e \in call'[b].todo : Failed(e)'
      BY DEF TargetFailed
    <3>1. CASE b = c
      BY <1>2, <1>4, <2>1, <2>2, <3>1 DEF FailedInv, TargetFailed
    <3>2. CASE b # c
      BY <1>1, <1>2, <2>1, <2>2, <3>2 DEF FailedInv, TargetFailed, ReplayInv, TargetChosen
    <3>3. QED
      BY <3>1, <3>2
  <2>4. SourceFailed'
    <3>1. Failed(call[c].target)
      BY <1>4 DEF FailedInv, TargetFailed
    <3>2. \A e \in Deliveries : delivery[e].source \in Deliveries \cup {NoDelivery}
      BY <1>1 DEF TypeOK, ReplayRow
    <3>3. QED
      BY <2>1, <2>2, <3>1, <3>2 DEF FailedInv, SourceFailed
  <2>5. QED
    BY <1>1, <2>3, <2>4 DEF FailedInv
<1>5. ASSUME NEW d \in Deliveries, NEW status \in Statuses, PipelineStep(d, status)
      PROVE  FailedInv'
  <2>1. /\ UNCHANGED call /\ delivery'[d].source = delivery[d].source
        /\ \A e \in Deliveries : e # d => delivery'[e] = delivery[e]
        /\ Failed(d) => Failed(d)'
    BY <1>1, <1>5 DEF PipelineStep, Failed
  <2>2. \A e \in Deliveries : Failed(e) => Failed(e)'
    BY <2>1 DEF Failed
  <2>3. TargetFailed'
    BY <1>1, <1>2, <2>1, <2>2 DEF FailedInv, TargetFailed, ReplayInv, TargetChosen
  <2>4. SourceFailed'
    <3>1. \A e \in Deliveries : delivery[e].source \in Deliveries \cup {NoDelivery}
      BY <1>1 DEF TypeOK, ReplayRow
    <3>2. \A e \in Deliveries : delivery'[e].source = delivery[e].source
      BY <2>1
    <3>3. QED
      BY <2>2, <3>1, <3>2 DEF FailedInv, SourceFailed
  <2>5. QED
    BY <1>1, <2>3, <2>4 DEF FailedInv
<1>6. ASSUME NEW c \in Calls, CallNext(c) \/ ReadIDFails(c) \/ Fail(c) PROVE FailedInv'
  <2> USE DEF FailedInv, TargetFailed, Failed
  <2>1. CASE GetForReplay(c) \/ GetEndpoint(c) \/ Fail(c)
    BY <1>1, <1>3, <2>1, ReadFacts
  <2>2. CASE ListIDs(c)
    BY <1>1, <1>3, <2>2, ReadFacts DEF PermanentlyFailedIDs
  <2>3. CASE NextID(c)
    BY <1>1, <1>3, <2>3, ReadFacts
  <2>4. CASE ReadID(c) \/ ReadIDFails(c)
    BY <1>1, <1>3, <2>4, ReadFacts
  <2>5. CASE FinishReplay(c)
    BY <1>1, <1>3, <1>4, <2>5, ReadFacts
  <2>6. CASE InsertID(c)
    BY <1>1, <1>3, <1>4, <2>6, ReadFacts
  <2>7. QED
    BY <1>6, <2>1, <2>2, <2>3, <2>4, <2>5, <2>6 DEF CallNext
<1>7. ASSUME NEW c \in Calls, \/ \E d \in Deliveries : StartReplay(c, d)
                              \/ \E f \in Filters : StartBulkReplay(c, f)
      PROVE  FailedInv'
  <2>1. Reads(c) /\ call'[c].pc \in {"get", "list"}
    BY <1>1, <1>7, ReadFacts
  <2>2. QED
    BY <1>3, <2>1
<1>8. CASE UNCHANGED vars
  BY <1>1, <1>8 DEF vars, FailedInv, TargetFailed, SourceFailed, Failed
<1>9. \A status \in TerminalStatuses \cup {"scheduled", "in_flight"} : status \in Statuses
  BY DEF TerminalStatuses, Statuses
<1>10. ASSUME NEW d \in Deliveries,
              \/ Claim(d)
              \/ \E status \in TerminalStatuses \cup {"scheduled"} :
                   Outcome(d, status) \/ Redelivered(d, status)
       PROVE  FailedInv'
  <2>1. PICK status \in Statuses : PipelineStep(d, status)
    BY <1>1, <1>9, <1>10, PipelineFacts
  <2>2. QED
    BY <1>5, <2>1
<1>11. QED
  BY <1>6, <1>7, <1>8, <1>10 DEF Next

\* Scenario 1 of user story 3 of 004-dlq-replay for every number of calls: a delivery
\* with a replay remains permanently failed, unless one of its own messages was
\* processed after it had ended.
THEOREM SourceRemainsFailed == Spec => []SourceFailed
<1>1. Init => FailedInv
  <2>1. Init => ReplayInv
    BY InitReplay
  <2>2. Init => TargetFailed
    BY DEF Init, TargetFailed, NewCall
  <2>3. Init => SourceFailed
    <3> SUFFICES ASSUME Init, NEW d \in Deliveries PROVE delivery[d].source = NoDelivery
      BY DEF SourceFailed
    <3> QED
      BY DEF Init
  <2>4. QED
    BY <2>1, <2>2, <2>3 DEF FailedInv
<1>2. FailedInv => SourceFailed
  BY DEF FailedInv
<1>3. QED
  BY <1>1, <1>2, FailedStep, PTL DEF Spec
-----------------------------------------------------------------------------

\* s has a replay that was under way at the snapshot of c or came after it.
Replayed(c, s) ==
  \E d \in Deliveries : delivery[d].source = s /\ (d \in call[c].before => delivery[d].repeated)

\* The ID that c is working on.
Current(c) == IF call[c].pc \in {"read", "insert"} THEN {call[c].target} ELSE {}

\* BulkReplay goes through its snapshot: every ID is still to do, at hand, passed over
\* or replayed, and the call is accepted when only the last two are left.
Covered(c) ==
  /\ call[c].pc \in {"new", "get", "endpoint", "create", "list"} => call[c].ids = {}
  /\ call[c].answer = "accepted" => call[c].pc = "done"
  /\ call[c].pc # "done" =>
       \A s \in call[c].ids \ (call[c].skipped \cup call[c].todo \cup Current(c)) : Replayed(c, s)
  /\ call[c].answer = "accepted" => \A s \in call[c].ids \ call[c].skipped : Replayed(c, s)

SnapshotCovered == \A c \in Calls : Covered(c)

\* What was terminal at the snapshot of c is a row, and stays terminal until a repeated
\* message moves it.
BeforeTerminal ==
  \A c \in Calls : \A d \in call[c].before :
    delivery[d].status # "absent" /\ (IsNonTerminal(delivery[d]) => delivery[d].repeated)

\* What is not a row yet replays nothing.
NoRowNoSource ==
  \A d \in Deliveries : delivery[d].status = "absent" => delivery[d].source = NoDelivery

CoverInv == ReplayInv /\ SnapshotCovered /\ BeforeTerminal /\ NoRowNoSource

\* What a step leaves of the rows: a source stays, repeated stays, a row stays a row, and
\* a row that has ended becomes active again only by a repeated message.
RowsKept ==
  \A d \in Deliveries :
    /\ delivery[d].source # NoDelivery => delivery'[d].source = delivery[d].source
    /\ delivery[d].repeated => delivery'[d].repeated
    /\ delivery[d].status # "absent" =>
         /\ delivery'[d].status # "absent"
         /\ IsNonTerminal(delivery'[d]) => IsNonTerminal(delivery[d]) \/ delivery'[d].repeated
    /\ delivery'[d].status = "absent" => delivery'[d].source = NoDelivery

\* What the steps that change a row leave of the rows.
LEMMA RowFacts ==
  ASSUME ReplayInv, NoRowNoSource
  PROVE  /\ \A c \in Calls : Reads(c) => RowsKept
         /\ \A c \in Calls, pc \in {"check", "done"}, answer \in {"none", "accepted"} :
              call[c].pc \in {"create", "insert"} /\ CreateReplay(c, pc, answer) => RowsKept
         /\ \A d \in Deliveries, status \in Statuses \ {"absent"} :
              PipelineStep(d, status) => RowsKept
<1>1. ASSUME NEW c \in Calls, Reads(c) PROVE RowsKept
  BY <1>1 DEF Reads, RowsKept, NoRowNoSource
<1>2. ASSUME NEW c \in Calls, NEW pc \in {"check", "done"}, NEW answer \in {"none", "accepted"},
             call[c].pc \in {"create", "insert"}, CreateReplay(c, pc, answer)
      PROVE  RowsKept
  <2>1. PICK d \in Deliveries :
          /\ delivery[d].status = "absent"
          /\ delivery'[d].status = "scheduled"
          /\ delivery'[d].repeated = delivery[d].repeated
          /\ \A e \in Deliveries : e # d => delivery'[e] = delivery[e]
    BY <1>2, CreateFacts DEF ReplayInv
  <2>2. QED
    BY <2>1 DEF RowsKept, NoRowNoSource
<1>3. ASSUME NEW d \in Deliveries, NEW status \in Statuses \ {"absent"}, PipelineStep(d, status)
      PROVE  RowsKept
  <2>1. /\ delivery'[d].status = status /\ delivery'[d].source = delivery[d].source
        /\ \A e \in Deliveries : e # d => delivery'[e] = delivery[e]
    BY <1>3 DEF PipelineStep
  <2>2. \/ /\ delivery[d].status \in {"scheduled", "in_flight"}
           /\ delivery'[d].repeated = delivery[d].repeated
        \/ delivery'[d].repeated = TRUE
    BY <1>3 DEF PipelineStep
  <2>3. QED
    BY <2>1, <2>2 DEF RowsKept, NoRowNoSource, IsNonTerminal
<1>4. QED
  BY <1>1, <1>2, <1>3

\* A replay of s is not lost: as long as the call remembers the same snapshot, s stays
\* replayed, and an active replay of s counts.
LEMMA ReplayedKept ==
  ASSUME CoverInv, RowsKept, NEW c \in Calls, NEW s \in Deliveries
  PROVE  /\ Replayed(c, s) /\ call'[c].before = call[c].before => Replayed(c, s)'
         /\ HasNonTerminalReplay(s) => Replayed(c, s)
<1>1. ASSUME Replayed(c, s), call'[c].before = call[c].before PROVE Replayed(c, s)'
  <2>1. PICK d \in Deliveries :
          delivery[d].source = s /\ (d \in call[c].before => delivery[d].repeated)
    BY <1>1 DEF Replayed
  <2>2. delivery'[d].source = s /\ (d \in call'[c].before => delivery'[d].repeated)
    BY <1>1, <2>1, NamesAssumption DEF RowsKept
  <2>3. QED
    BY <2>2 DEF Replayed
<1>2. ASSUME HasNonTerminalReplay(s) PROVE Replayed(c, s)
  <2>1. PICK d \in Deliveries : delivery[d].source = s /\ IsNonTerminal(delivery[d])
    BY <1>2 DEF HasNonTerminalReplay, ActiveReplays
  <2>2. QED
    BY <2>1 DEF CoverInv, BeforeTerminal, Replayed
<1>3. QED
  BY <1>1, <1>2

\* The fields of the snapshot after a step of c.
LEMMA SnapshotFacts ==
  ASSUME ReplayInv, NEW c \in Calls
  PROVE  /\ GetForReplay(c) \/ GetEndpoint(c) \/ (\E d \in Deliveries : StartReplay(c, d)) =>
              /\ call'[c].before = call[c].before
              /\ call[c].pc \in {"new", "get", "endpoint"} /\ call'[c].ids = call[c].ids
              /\ call'[c].answer \in {call[c].answer, "not_found", "conflict"}
              /\ call'[c].answer = call[c].answer \/ call'[c].pc = "done"
         /\ \A f \in Filters : StartBulkReplay(c, f) =>
              /\ call'[c].before = call[c].before
              /\ call[c].pc = "new" /\ call'[c].ids = call[c].ids
              /\ call'[c].answer = call[c].answer
         /\ FinishReplay(c) =>
              /\ call'[c].before = call[c].before
              /\ call[c].pc = "create" /\ call'[c].ids = call[c].ids
              /\ call'[c].pc = "done"
         /\ ListIDs(c) =>
              /\ call'[c].before = {d \in Deliveries : IsTerminal(delivery[d])}
              /\ call'[c].ids = call'[c].todo
              /\ call[c].pc = "list" /\ call'[c].answer = call[c].answer
         /\ NextID(c) =>
              /\ call'[c].before = call[c].before
              /\ call'[c].ids = call[c].ids /\ call'[c].skipped = call[c].skipped
              /\ \/ call[c].todo = {} /\ call'[c].pc = "done" /\ call'[c].answer = "accepted"
                 \/ /\ call'[c].todo = call[c].todo \ {call'[c].target}
                    /\ call'[c].answer = call[c].answer /\ call'[c].target \in call[c].todo
                    /\ call'[c].pc = IF HasNonTerminalReplay(call'[c].target) THEN "check"
                                                                              ELSE "read"
         /\ ReadID(c) =>
              /\ call'[c].before = call[c].before
              /\ call'[c].ids = call[c].ids /\ call'[c].skipped = call[c].skipped
              /\ call'[c].answer = call[c].answer /\ call'[c].pc = "insert"
         /\ ReadIDFails(c) =>
              /\ call'[c].before = call[c].before
              /\ call'[c].ids = call[c].ids
              /\ call'[c].skipped = call[c].skipped \cup {call[c].target}
              /\ call'[c].answer = call[c].answer /\ call'[c].pc = "check"
         /\ InsertID(c) =>
              /\ call'[c].before = call[c].before
              /\ call'[c].ids = call[c].ids /\ call'[c].skipped = call[c].skipped
              /\ call'[c].todo = call[c].todo
              /\ call'[c].answer \in {call[c].answer, "none"} /\ call'[c].pc = "check"
         /\ Fail(c) => /\ call'[c].before = call[c].before
                       /\ call'[c].pc = "done" /\ call'[c].answer = "error"
<1>1. call \in [Calls -> Call] /\ call[c] \in Call
  BY DEF ReplayInv, TypeOK
<1> DEFINE Kept == call'[c].before = call[c].before /\ call'[c].ids = call[c].ids
<1>2. ASSUME NEW d \in Deliveries, StartReplay(c, d)
      PROVE  Kept /\ call[c].pc = "new" /\ call'[c].answer = call[c].answer
  BY <1>1, <1>2 DEF StartReplay, Becomes, Call
<1>3. ASSUME NEW f \in Filters, StartBulkReplay(c, f)
      PROVE  Kept /\ call[c].pc = "new" /\ call'[c].answer = call[c].answer
  BY <1>1, <1>3 DEF StartBulkReplay, Becomes, Call
<1>4. \A answer : Ends(c, answer) =>
        /\ Kept /\ call'[c].skipped = call[c].skipped
        /\ call'[c].pc = "done" /\ call'[c].answer = answer
  BY <1>1 DEF Ends, Becomes, Call
<1>5. \A pc : Becomes(c, [call[c] EXCEPT !.pc = pc]) =>
        /\ Kept /\ call'[c].skipped = call[c].skipped /\ call'[c].todo = call[c].todo
        /\ call'[c].pc = pc /\ call'[c].answer = call[c].answer
  BY <1>1 DEF Becomes, Call
<1>6. ASSUME NEW pc, NEW answer, CreateReplay(c, pc, answer)
      PROVE  /\ Kept /\ call'[c].skipped = call[c].skipped /\ call'[c].todo = call[c].todo
             /\ call'[c].pc = pc /\ call'[c].answer = answer
  <2>1. PICK d \in Deliveries :
          Becomes(c, [call[c] EXCEPT !.pc = pc, !.answer = answer, !.made = @ \cup {d}])
    BY <1>6, Zenon DEF CreateReplay
  <2>2. QED
    BY <1>1, <2>1 DEF Becomes, Call
<1>7. GetForReplay(c) => /\ Kept /\ call[c].pc = "get"
                         /\ call'[c].answer \in {call[c].answer, "not_found", "conflict"}
                         /\ call'[c].answer = call[c].answer \/ call'[c].pc = "done"
  BY <1>4, <1>5 DEF GetForReplay
<1>8. GetEndpoint(c) => Kept /\ call[c].pc = "endpoint" /\ call'[c].answer = call[c].answer
  BY <1>5 DEF GetEndpoint
<1>9. FinishReplay(c) => Kept /\ call[c].pc = "create" /\ call'[c].pc = "done"
  BY <1>4, <1>6 DEF FinishReplay
<1>10. ASSUME ListIDs(c)
       PROVE  /\ call'[c].before = {d \in Deliveries : IsTerminal(delivery[d])}
              /\ call'[c].ids = call'[c].todo
              /\ call[c].pc = "list" /\ call'[c].answer = call[c].answer
  <2> DEFINE ids == PermanentlyFailedIDs(call[c].filter)
             before == {d \in Deliveries : IsTerminal(delivery[d])}
  <2>1. /\ Becomes(c, [call[c] EXCEPT !.pc = "check", !.ids = ids, !.todo = ids,
                                      !.before = before])
        /\ call[c].pc = "list"
    BY <1>10 DEF ListIDs
  <2> HIDE DEF ids, before
  <2>2. call'[c].before = before /\ call'[c].ids = ids /\ call'[c].todo = ids
        /\ call'[c].answer = call[c].answer
    BY <1>1, <2>1 DEF Becomes, Call
  <2>3. QED
    BY <2>1, <2>2 DEF before
<1>11. ASSUME NextID(c)
       PROVE  /\ Kept /\ call'[c].skipped = call[c].skipped
              /\ \/ call[c].todo = {} /\ call'[c].pc = "done" /\ call'[c].answer = "accepted"
                 \/ /\ call'[c].todo = call[c].todo \ {call'[c].target}
                    /\ call'[c].answer = call[c].answer /\ call'[c].target \in call[c].todo
                    /\ call'[c].pc = IF HasNonTerminalReplay(call'[c].target) THEN "check"
                                                                              ELSE "read"
  <2>1. CASE call[c].todo = {} /\ Ends(c, "accepted")
    BY <1>4, <2>1
  <2>2. ASSUME NEW d \in call[c].todo,
               Becomes(c, [call[c] EXCEPT !.pc = IF HasNonTerminalReplay(d) THEN "check" ELSE "read",
                                          !.target = d, !.todo = @ \ {d}])
        PROVE  /\ Kept /\ call'[c].skipped = call[c].skipped
               /\ call'[c].todo = call[c].todo \ {d} /\ call'[c].target = d
               /\ call'[c].answer = call[c].answer
               /\ call'[c].pc = IF HasNonTerminalReplay(d) THEN "check" ELSE "read"
    BY <1>1, <2>2 DEF Becomes, Call
  <2>3. QED
    BY <1>11, <2>1, <2>2 DEF NextID
<1>12. ReadID(c) => /\ Kept /\ call'[c].skipped = call[c].skipped
                    /\ call'[c].answer = call[c].answer /\ call'[c].pc = "insert"
  BY <1>5 DEF ReadID
<1>13. ReadIDFails(c) => /\ Kept /\ call'[c].skipped = call[c].skipped \cup {call[c].target}
                         /\ call'[c].answer = call[c].answer /\ call'[c].pc = "check"
  BY <1>1 DEF ReadIDFails, Becomes, Call
<1>14. InsertID(c) => /\ Kept /\ call'[c].skipped = call[c].skipped
                      /\ call'[c].todo = call[c].todo
                      /\ call'[c].answer \in {call[c].answer, "none"} /\ call'[c].pc = "check"
  BY <1>5, <1>6 DEF InsertID
<1>15. Fail(c) => Kept /\ call'[c].pc = "done" /\ call'[c].answer = "error"
  BY <1>4 DEF Fail
<1>16. QED
  BY <1>2, <1>3, <1>7, <1>8, <1>9, <1>10, <1>11, <1>12, <1>13, <1>14, <1>15

\* What BulkReplay has dealt with stays dealt with: each step of a call accounts for the
\* ID it takes off its list.
LEMMA CoverStep == CoverInv /\ [Next]_vars => CoverInv'
<1> SUFFICES ASSUME CoverInv, [Next]_vars PROVE CoverInv'
  OBVIOUS
<1>1. ReplayInv /\ ReplayInv' /\ NoRowNoSource
  BY OneActiveStep DEF CoverInv
<1>2. \A c \in Calls : call[c].ids \subseteq Deliveries /\ call[c].before \subseteq Deliveries
                       /\ call[c].todo \subseteq Deliveries
  BY <1>1 DEF ReplayInv, TypeOK, Call
<1>3. \A c \in Calls : Covered(c)
  BY DEF CoverInv, SnapshotCovered
<1>5. ASSUME RowsKept, NEW c \in Calls, call'[c] = call[c] PROVE Covered(c)'
  <2>1. \A s \in call[c].ids : Replayed(c, s) => Replayed(c, s)'
    BY <1>2, <1>5, ReplayedKept
  <2>2. QED
    BY <1>3, <1>5, <2>1 DEF Covered, Current
<1>6. ASSUME RowsKept, NEW c \in Calls,
             \A b \in Calls : b # c => call'[b] = call[b],
             Covered(c)',
             call'[c].before \in {call[c].before, {d \in Deliveries : IsTerminal(delivery[d])}}
      PROVE  CoverInv'
  <2>1. SnapshotCovered'
    BY <1>5, <1>6 DEF SnapshotCovered
  <2>2. NoRowNoSource'
    BY <1>6 DEF RowsKept, NoRowNoSource
  <2>3. BeforeTerminal'
    <3> SUFFICES ASSUME NEW b \in Calls, NEW d \in call'[b].before
                 PROVE  /\ delivery'[d].status # "absent"
                        /\ IsNonTerminal(delivery'[d]) => delivery'[d].repeated
      BY DEF BeforeTerminal, IsNonTerminal
    <3>1. /\ d \in Deliveries /\ delivery[d].status # "absent"
          /\ IsNonTerminal(delivery[d]) => delivery[d].repeated
      BY <1>2, <1>6 DEF CoverInv, BeforeTerminal, IsTerminal, IsNonTerminal, TerminalStatuses
    <3>2. QED
      BY <1>6, <3>1 DEF RowsKept
  <2>4. QED
    BY <1>1, <2>1, <2>2, <2>3 DEF CoverInv
<1>7. ASSUME NEW c \in Calls, \/ CallNext(c) \/ ReadIDFails(c) \/ Fail(c)
                              \/ \E d \in Deliveries : StartReplay(c, d)
                              \/ \E f \in Filters : StartBulkReplay(c, f)
      PROVE  CoverInv'
  <2>1. RowsKept /\ \A b \in Calls : b # c => call'[b] = call[b]
    <3>1. CASE Reads(c)
      BY <1>1, <3>1, RowFacts DEF Reads
    <3>2. ASSUME call[c].pc \in {"create", "insert"}, NEW pc \in {"check", "done"},
                 NEW answer \in {"none", "accepted"}, CreateReplay(c, pc, answer)
          PROVE  RowsKept /\ \A b \in Calls : b # c => call'[b] = call[b]
      BY <1>1, <3>2, RowFacts, CreateFacts DEF ReplayInv
    <3>3. QED
      BY <1>1, <1>7, <3>1, <3>2, ReadFacts DEF CallNext
  <2>2. ASSUME NEW s \in call[c].ids, call'[c].before = call[c].before
        PROVE  /\ Replayed(c, s) => Replayed(c, s)'
               /\ HasNonTerminalReplay(s) => Replayed(c, s)'
    BY <1>2, <2>1, <2>2, ReplayedKept
  <2>3. CASE \/ GetForReplay(c) \/ GetEndpoint(c)
             \/ \E d \in Deliveries : StartReplay(c, d)
             \/ \E f \in Filters : StartBulkReplay(c, f)
             \/ FinishReplay(c)
    <3>1. /\ call'[c].before = call[c].before /\ call'[c].ids = {}
          /\ call'[c].answer = "accepted" => call'[c].pc = "done"
      BY <1>1, <1>3, <2>3, SnapshotFacts DEF Covered
    <3>2. QED
      BY <1>6, <2>1, <3>1 DEF Covered
  <2>4. CASE ListIDs(c)
    <3>1. Covered(c)'
      BY <1>1, <1>3, <2>4, SnapshotFacts, ReadFacts DEF Covered
    <3>2. QED
      BY <1>1, <1>6, <2>1, <2>4, <3>1, SnapshotFacts
  <2>5. CASE NextID(c)
    <3>1. /\ call'[c].before = call[c].before
          /\ call'[c].ids = call[c].ids /\ call'[c].skipped = call[c].skipped
          /\ call[c].pc = "check"
      BY <1>1, <2>5, SnapshotFacts, ReadFacts
    <3>2. CASE call[c].todo = {} /\ call'[c].pc = "done" /\ call'[c].answer = "accepted"
      BY <1>3, <1>6, <2>1, <2>2, <3>1, <3>2 DEF Covered, Current
    <3>3. CASE /\ call'[c].todo = call[c].todo \ {call'[c].target}
               /\ call'[c].answer = call[c].answer /\ call'[c].target \in call[c].todo
               /\ call'[c].pc = IF HasNonTerminalReplay(call'[c].target) THEN "check" ELSE "read"
      <4>1. \A s \in call[c].ids \ (call[c].skipped \cup call[c].todo) : Replayed(c, s)'
        BY <1>3, <2>2, <3>1 DEF Covered, Current
      <4>2. \A s \in call[c].ids : call'[c].pc = "check" /\ s = call'[c].target => Replayed(c, s)'
        BY <2>2, <3>1, <3>3
      <4>3. Covered(c)'
        BY <1>3, <3>1, <3>3, <4>1, <4>2 DEF Covered, Current
      <4>4. QED
        BY <1>6, <2>1, <3>1, <4>3
    <3>4. QED
      BY <1>1, <2>5, <3>2, <3>3, SnapshotFacts
  <2>6. CASE ReadID(c)
    <3>1. /\ call'[c].before = call[c].before
          /\ call'[c].ids = call[c].ids /\ call'[c].skipped = call[c].skipped
          /\ call'[c].todo = call[c].todo /\ call'[c].target = call[c].target
          /\ call'[c].answer = call[c].answer /\ call'[c].pc = "insert" /\ call[c].pc = "read"
      BY <1>1, <2>6, SnapshotFacts, ReadFacts
    <3>2. Covered(c)'
      BY <1>3, <2>2, <3>1 DEF Covered, Current
    <3>3. QED
      BY <1>6, <2>1, <3>1, <3>2
  <2>7. CASE ReadIDFails(c)
    <3>1. /\ call'[c].before = call[c].before
          /\ call'[c].ids = call[c].ids /\ call'[c].skipped = call[c].skipped \cup {call[c].target}
          /\ call'[c].todo = call[c].todo
          /\ call'[c].answer = call[c].answer /\ call'[c].pc = "check" /\ call[c].pc = "read"
      BY <1>1, <2>7, SnapshotFacts, ReadFacts
    <3>2. Covered(c)'
      BY <1>3, <2>2, <3>1 DEF Covered, Current
    <3>3. QED
      BY <1>6, <2>1, <3>1, <3>2
  <2>8. CASE InsertID(c)
    <3>1. /\ call'[c].before = call[c].before
          /\ call'[c].ids = call[c].ids /\ call'[c].skipped = call[c].skipped
          /\ call'[c].todo = call[c].todo
          /\ call'[c].answer \in {call[c].answer, "none"}
          /\ call'[c].pc = "check" /\ call[c].pc = "insert"
      BY <1>1, <2>8, SnapshotFacts, ReadFacts
    <3>2. ASSUME NEW s \in call[c].ids, s = call[c].target PROVE Replayed(c, s)'
      <4>1. CASE CreateReplay(c, "check", "none")
        <5>1. PICK d \in Deliveries :
                /\ delivery[d].status = "absent" /\ delivery'[d].source = s
          BY <1>1, <3>1, <3>2, <4>1, CreateFacts DEF ReplayInv
        <5>2. d \notin call[c].before
          BY <5>1 DEF CoverInv, BeforeTerminal
        <5>3. QED
          BY <3>1, <5>1, <5>2 DEF Replayed
      <4>2. CASE UniqueViolation(c)
        BY <2>2, <3>1, <3>2, <4>2 DEF UniqueViolation
      <4>3. QED
        BY <2>8, <4>1, <4>2 DEF InsertID
    <3>3. Covered(c)'
      BY <1>3, <2>2, <3>1, <3>2 DEF Covered, Current
    <3>4. QED
      BY <1>6, <2>1, <3>1, <3>3
  <2>9. CASE Fail(c)
    <3>1. /\ call'[c].before = call[c].before
          /\ call'[c].pc = "done" /\ call'[c].answer = "error"
      BY <1>1, <2>9, SnapshotFacts
    <3>2. QED
      BY <1>6, <2>1, <3>1 DEF Covered
  <2>10. QED
    BY <1>7, <2>3, <2>4, <2>5, <2>6, <2>7, <2>8, <2>9, Zenon DEF CallNext
<1>8. ASSUME RowsKept, UNCHANGED call PROVE CoverInv'
  <2>1. CASE Calls = {}
    BY <1>1, <1>8, <2>1 DEF CoverInv, SnapshotCovered, BeforeTerminal, NoRowNoSource, RowsKept
  <2>2. ASSUME NEW c \in Calls PROVE CoverInv'
    BY <1>5, <1>6, <1>8
  <2>3. QED
    BY <2>1, <2>2
<1>9. ASSUME NEW d \in Deliveries,
             \/ Claim(d)
             \/ \E status \in TerminalStatuses \cup {"scheduled"} :
                  Outcome(d, status) \/ Redelivered(d, status)
      PROVE  CoverInv'
  <2>1. PICK status \in Statuses \ {"absent"} : PipelineStep(d, status)
    BY <1>1, <1>9, PipelineFacts DEF ReplayInv, TerminalStatuses, Statuses
  <2>2. QED
    BY <1>1, <1>8, <2>1, RowFacts DEF PipelineStep
<1>10. CASE UNCHANGED vars
  <2>1. RowsKept
    BY <1>1, <1>10 DEF vars, RowsKept, NoRowNoSource
  <2>2. QED
    BY <1>8, <1>10, <2>1 DEF vars
<1>11. QED
  BY <1>7, <1>9, <1>10 DEF Next

\* Scenarios 1 and 4 of user story 4 of 004-dlq-replay for every number of calls,
\* deliveries and repeated messages: a bulk replay that is answered with 202 has left
\* no delivery of its snapshot without a replay, except those whose read failed.
THEOREM BulkReplayCovers == Spec => []BulkCovered
<1>1. Init => CoverInv
  <2> SUFFICES ASSUME Init PROVE CoverInv
    OBVIOUS
  <2>1. ReplayInv
    BY InitReplay
  <2>2. \A c \in Calls : call[c].pc = "new" /\ call[c].ids = {} /\ call[c].before = {}
                         /\ call[c].answer = "none"
    BY DEF Init, NewCall
  <2>3. SnapshotCovered /\ BeforeTerminal
    BY <2>2 DEF SnapshotCovered, Covered, BeforeTerminal
  <2>4. NoRowNoSource
    <3> SUFFICES ASSUME NEW d \in Deliveries PROVE delivery[d].source = NoDelivery
      BY DEF NoRowNoSource
    <3> QED
      BY DEF Init
  <2>5. QED
    BY <2>1, <2>3, <2>4 DEF CoverInv
<1>2. CoverInv => BulkCovered
  BY DEF CoverInv, SnapshotCovered, Covered, BulkCovered, Replayed
<1>3. QED
  BY <1>1, <1>2, CoverStep, PTL DEF Spec
=============================================================================

------------------------- MODULE CommandStreamProofs -------------------------
(***************************************************************************)
(* What CommandStream promises, proved for any set of callers, any timeouts *)
(* and any bounds.                                                          *)
(***************************************************************************)
EXTENDS CommandStream, TLAPS

\* The SDK call in progress, and the part of it after the target acted.
Sending == {"port", "cancel_check", "sdk", "sdk_return", "finish"}
Cleared == {"cancel_check", "sdk", "sdk_return", "finish"}
Acted == {"sdk_return", "finish"}
Ending == {"stop", "hold", "done"}

\* The first submission starts both threads and sets the lease.
InvStart ==
    /\ writer = "unstarted" => /\ deadline = None /\ watchdog = "unstarted"
                               /\ wire.kind = "none" /\ ~late /\ ~attempted
                               /\ ~stop_fault /\ wire.seq = 0
    /\ writer # "unstarted" => deadline \in Time /\ last_send \in Time

\* One command outstanding; acknowledged <= acted <= submitted.
InvOrder ==
    /\ ack_sequence <= wire.seq /\ wire.seq <= sequence
    /\ ack_sequence <= sequence /\ sequence <= ack_sequence + 1
    /\ writer \in Sending => ack_sequence <= target /\ target <= sequence
    /\ writer \in Acted => wire = [kind |-> "target", seq |-> target]

\* What the port knows in each part of the writer's loop.
InvPort ==
    /\ writer \in Cleared => enabled /\ attempted /\ ~stopped
    /\ wire.kind = "target" => enabled /\ attempted
    /\ wire.kind = "hold" => writer = "done"
    /\ stop_attempted => writer \in {"hold", "done"}

\* After a stray target the writer can only reject and end.
InvLate ==
    late => /\ writer \in Acted \cup {"except"} \cup Ending
            /\ halt \/ now >= deadline
            /\ writer = "finish" => halt \/ finished >= deadline

\* The end of the writer, and what stop() has made of it.
InvEnd ==
    /\ writer \in Ending => halt
    /\ writer = "done" /\ wire.kind = "target" => stop_fault
    /\ stop_fault => writer = "done"
    /\ stopper.pc # "idle" => halt
    /\ stopper.pc = "confirmed" => ThreadsEnded /\ ~stop_fault

IInv == TypeOK /\ InvStart /\ InvOrder /\ InvPort /\ InvLate /\ InvEnd

------------------------------------------------------------------------------
(* Each part of IInv is preserved by every action.                           *)

\* Every step of the stream keeps its variables in their types.
LEMMA TypeStep == IInv /\ [Next]_vars => TypeOK'
<1> SUFFICES ASSUME IInv, [Next]_vars PROVE TypeOK'
  OBVIOUS
<1> USE TimingAssumption DEF IInv, TypeOK, Time, None, Faults
<1> USE DEF vars, portVars, streamVars, writerVars
<1>1. CASE Tick
  BY <1>1 DEF Tick, PortTypeOK, StreamTypeOK, WriterTypeOK, ThreadsTypeOK
<1>2. CASE StopCalled
  BY <1>2 DEF StopCalled, PortTypeOK, StreamTypeOK, WriterTypeOK, ThreadsTypeOK
<1>3. CASE StopReturns
  BY <1>3 DEF StopReturns, PortTypeOK, StreamTypeOK, WriterTypeOK,
     ThreadsTypeOK
<1>4. CASE WatchdogLeaves
  BY <1>4 DEF WatchdogLeaves, PortTypeOK, StreamTypeOK, WriterTypeOK,
     ThreadsTypeOK
<1>5. CASE WatchdogFinds
  <2>1. PortTypeOK'
    BY <1>5 DEF WatchdogFinds, Fail, PortTypeOK
  <2>2. StreamTypeOK'
    BY <1>5 DEF WatchdogFinds, Fail, StreamTypeOK
  <2>3. WriterTypeOK'
    BY <1>5 DEF WatchdogFinds, Fail, WriterTypeOK
  <2>4. ThreadsTypeOK'
    BY <1>5 DEF WatchdogFinds, Fail, ThreadsTypeOK
  <2> QED
    BY <2>1, <2>2, <2>3, <2>4
<1>6. ASSUME NEW c \in Callers, Submit(c) PROVE TypeOK'
  BY <1>6 DEF Submit, PortTypeOK, StreamTypeOK, WriterTypeOK, ThreadsTypeOK
<1>7. ASSUME NEW c \in Callers, SubmitAfterLease(c) PROVE TypeOK'
  BY <1>7 DEF SubmitAfterLease, Fail, PortTypeOK, StreamTypeOK, WriterTypeOK,
     ThreadsTypeOK
<1>8. ASSUME NEW c \in Callers, WaitEnds(c) PROVE TypeOK'
  BY <1>8 DEF WaitEnds, PortTypeOK, StreamTypeOK, WriterTypeOK, ThreadsTypeOK
<1>9. ASSUME NEW c \in Callers, WaitTimesOut(c) PROVE TypeOK'
  BY <1>9 DEF WaitTimesOut, Fail, PortTypeOK, StreamTypeOK, WriterTypeOK,
     ThreadsTypeOK
<1>25. ASSUME NEW c \in Callers, WaitInterrupted(c) PROVE TypeOK'
  BY <1>25 DEF WaitInterrupted, PortTypeOK, StreamTypeOK, WriterTypeOK,
     ThreadsTypeOK
<1>26. CASE StopInterrupted
  BY <1>26 DEF StopInterrupted, PortTypeOK, StreamTypeOK, WriterTypeOK,
     ThreadsTypeOK
<1>10. CASE WriterLeaves
  BY <1>10 DEF WriterLeaves, WriterGoes, PortTypeOK, StreamTypeOK,
     WriterTypeOK, ThreadsTypeOK
<1>11. CASE WriterFindsLapse
  BY <1>11 DEF WriterFindsLapse, WriterRaises, PortTypeOK, StreamTypeOK,
     WriterTypeOK, ThreadsTypeOK
<1>12. CASE WriterTakesTarget
  BY <1>12 DEF WriterTakesTarget, PortTypeOK, StreamTypeOK, WriterTypeOK,
     ThreadsTypeOK
<1>13. CASE WriterChecksPort
  <2>1. PortTypeOK'
    BY <1>13 DEF WriterChecksPort, SendChecked, SendRefused, SendFailed,
       WriterGoes, WriterRaises, PortTypeOK
  <2>2. StreamTypeOK'
    BY <1>13 DEF WriterChecksPort, SendChecked, SendRefused, SendFailed,
       WriterGoes, WriterRaises, StreamTypeOK
  <2>3. WriterTypeOK'
    BY <1>13 DEF WriterChecksPort, SendChecked, SendRefused, SendFailed,
       WriterGoes, WriterRaises, WriterTypeOK
  <2>4. ThreadsTypeOK'
    BY <1>13 DEF WriterChecksPort, SendChecked, SendRefused, SendFailed,
       WriterGoes, WriterRaises, ThreadsTypeOK
  <2> QED
    BY <2>1, <2>2, <2>3, <2>4
<1>14. CASE WriterRechecksCancel
  <2>1. PortTypeOK'
    BY <1>14 DEF WriterRechecksCancel, SendFailed, WriterGoes, WriterRaises,
       PortTypeOK
  <2>2. StreamTypeOK'
    BY <1>14 DEF WriterRechecksCancel, SendFailed, WriterGoes, WriterRaises,
       StreamTypeOK
  <2>3. WriterTypeOK'
    BY <1>14 DEF WriterRechecksCancel, SendFailed, WriterGoes, WriterRaises,
       WriterTypeOK
  <2>4. ThreadsTypeOK'
    BY <1>14 DEF WriterRechecksCancel, SendFailed, WriterGoes, WriterRaises,
       ThreadsTypeOK
  <2> QED
    BY <2>1, <2>2, <2>3, <2>4
<1>15. CASE SdkActs
  BY <1>15 DEF SdkActs, TargetActs, WriterGoes, PortTypeOK, StreamTypeOK,
     WriterTypeOK, ThreadsTypeOK
<1>16. CASE SdkReturns
  BY <1>16 DEF SdkReturns, PortTypeOK, StreamTypeOK, WriterTypeOK,
     ThreadsTypeOK
<1>17. CASE SdkRaises
  BY <1>17 DEF SdkRaises, SendFailed, WriterRaises, PortTypeOK, StreamTypeOK,
     WriterTypeOK, ThreadsTypeOK
<1>18. CASE WriterRejectsSend
  BY <1>18 DEF WriterRejectsSend, WriterGoes, WriterRaises, PortTypeOK,
     StreamTypeOK, WriterTypeOK, ThreadsTypeOK
<1>19. CASE WriterAcknowledges
  BY <1>19 DEF WriterAcknowledges, WriterGoes, PortTypeOK, StreamTypeOK,
     WriterTypeOK, ThreadsTypeOK
<1>20. CASE WriterPeriodEnds
  BY <1>20 DEF WriterPeriodEnds, WriterGoes, PortTypeOK, StreamTypeOK,
     WriterTypeOK, ThreadsTypeOK
<1>21. CASE WriterFails
  BY <1>21 DEF WriterFails, Fail, WriterGoes, PortTypeOK, StreamTypeOK,
     WriterTypeOK, ThreadsTypeOK
<1>22. CASE WriterStopsPort
  <2>1. PortTypeOK'
    BY <1>22 DEF WriterStopsPort, StopLatched, NoHoldDue, WriterGoes,
       StopRaised, Fail, PortTypeOK
  <2>2. StreamTypeOK'
    BY <1>22 DEF WriterStopsPort, StopLatched, NoHoldDue, WriterGoes,
       StopRaised, Fail, StreamTypeOK
  <2>3. WriterTypeOK'
    BY <1>22 DEF WriterStopsPort, StopLatched, NoHoldDue, WriterGoes,
       StopRaised, Fail, WriterTypeOK
  <2>4. ThreadsTypeOK'
    BY <1>22 DEF WriterStopsPort, StopLatched, NoHoldDue, WriterGoes,
       StopRaised, Fail, ThreadsTypeOK
  <2> QED
    BY <2>1, <2>2, <2>3, <2>4
<1>23. CASE WriterHolds
  <2>1. PortTypeOK'
    BY <1>23 DEF WriterHolds, HoldActs, HoldFailed, WriterGoes, StopRaised,
       Fail, PortTypeOK
  <2>2. StreamTypeOK'
    BY <1>23 DEF WriterHolds, HoldActs, HoldFailed, WriterGoes, StopRaised,
       Fail, StreamTypeOK
  <2>3. WriterTypeOK'
    BY <1>23 DEF WriterHolds, HoldActs, HoldFailed, WriterGoes, StopRaised,
       Fail, WriterTypeOK
  <2>4. ThreadsTypeOK'
    BY <1>23 DEF WriterHolds, HoldActs, HoldFailed, WriterGoes, StopRaised,
       Fail, ThreadsTypeOK
  <2> QED
    BY <2>1, <2>2, <2>3, <2>4
<1>24. CASE UNCHANGED vars
  BY <1>24 DEF PortTypeOK, StreamTypeOK, WriterTypeOK, ThreadsTypeOK
<1> QED
  BY <1>1, <1>2, <1>3, <1>4, <1>5, <1>6, <1>7, <1>8, <1>9, <1>10, <1>11, <1>12,
     <1>13, <1>14, <1>15, <1>16, <1>17, <1>18, <1>19, <1>20, <1>21, <1>22,
     <1>23, <1>24, <1>25, <1>26
     DEF Next, CallerNext, WriterThread, SdkCall, WatchdogThread, Finished

\* Only the first submission starts the threads.
LEMMA StartStep == IInv /\ [Next]_vars => InvStart'
<1> SUFFICES ASSUME IInv, [Next]_vars PROVE InvStart'
  OBVIOUS
<1> USE TimingAssumption DEF IInv, TypeOK, PortTypeOK, StreamTypeOK,
   WriterTypeOK, ThreadsTypeOK, Time, None, Faults, InvStart
<1> USE DEF vars, portVars, streamVars, writerVars
<1>1. CASE Tick
  BY <1>1 DEF Tick
<1>2. CASE StopCalled
  BY <1>2 DEF StopCalled
<1>3. CASE StopReturns
  BY <1>3 DEF StopReturns
<1>4. CASE WatchdogLeaves
  BY <1>4 DEF WatchdogLeaves
<1>5. CASE WatchdogFinds
  BY <1>5 DEF WatchdogFinds, Fail
<1>6. ASSUME NEW c \in Callers, Submit(c) PROVE InvStart'
  BY <1>6 DEF Submit
<1>7. ASSUME NEW c \in Callers, SubmitAfterLease(c) PROVE InvStart'
  BY <1>7 DEF SubmitAfterLease, Fail
<1>8. ASSUME NEW c \in Callers, WaitEnds(c) PROVE InvStart'
  BY <1>8 DEF WaitEnds
<1>9. ASSUME NEW c \in Callers, WaitTimesOut(c) PROVE InvStart'
  BY <1>9 DEF WaitTimesOut, Fail
<1>25. ASSUME NEW c \in Callers, WaitInterrupted(c) PROVE InvStart'
  BY <1>25 DEF WaitInterrupted
<1>26. CASE StopInterrupted
  BY <1>26 DEF StopInterrupted
<1>10. CASE WriterLeaves
  BY <1>10 DEF WriterLeaves, WriterGoes
<1>11. CASE WriterFindsLapse
  BY <1>11 DEF WriterFindsLapse, WriterRaises
<1>12. CASE WriterTakesTarget
  BY <1>12 DEF WriterTakesTarget
<1>13. CASE WriterChecksPort
  BY <1>13 DEF WriterChecksPort, SendChecked, SendRefused, SendFailed,
     WriterGoes, WriterRaises
<1>14. CASE WriterRechecksCancel
  BY <1>14 DEF WriterRechecksCancel, SendFailed, WriterGoes, WriterRaises
<1>15. CASE SdkActs
  BY <1>15 DEF SdkActs, TargetActs, WriterGoes
<1>16. CASE SdkReturns
  BY <1>16 DEF SdkReturns
<1>17. CASE SdkRaises
  BY <1>17 DEF SdkRaises, SendFailed, WriterRaises
<1>18. CASE WriterRejectsSend
  BY <1>18 DEF WriterRejectsSend, WriterGoes, WriterRaises
<1>19. CASE WriterAcknowledges
  BY <1>19 DEF WriterAcknowledges, WriterGoes
<1>20. CASE WriterPeriodEnds
  BY <1>20 DEF WriterPeriodEnds, WriterGoes
<1>21. CASE WriterFails
  BY <1>21 DEF WriterFails, Fail, WriterGoes
<1>22. CASE WriterStopsPort
  <2>1. CASE ~NoHoldDue /\ WriterGoes("hold") /\ UNCHANGED streamVars
    BY <1>22, <2>1 DEF WriterStopsPort, StopLatched, NoHoldDue, WriterGoes,
       StopRaised, Fail
  <2>2. CASE NoHoldDue /\ ~stop_failure /\ WriterGoes("done") /\ UNCHANGED streamVars
    BY <1>22, <2>2 DEF WriterStopsPort, StopLatched, NoHoldDue, WriterGoes,
       StopRaised, Fail
  <2>3. CASE NoHoldDue /\ stop_failure /\ StopRaised
    BY <1>22, <2>3 DEF WriterStopsPort, StopLatched, NoHoldDue, WriterGoes,
       StopRaised, Fail
  <2> QED
    BY <1>22, <2>1, <2>2, <2>3 DEF WriterStopsPort
<1>23. CASE WriterHolds
  <2>1. CASE HoldActs /\ WriterGoes("done") /\ UNCHANGED streamVars
    BY <1>23, <2>1 DEF WriterHolds, HoldActs, HoldFailed, WriterGoes,
       StopRaised, Fail
  <2>2. CASE HoldFailed /\ StopRaised
    BY <1>23, <2>2 DEF WriterHolds, HoldActs, HoldFailed, WriterGoes,
       StopRaised, Fail
  <2> QED
    BY <1>23, <2>1, <2>2 DEF WriterHolds
<1>24. CASE UNCHANGED vars
  BY <1>24
<1> QED
  BY <1>1, <1>2, <1>3, <1>4, <1>5, <1>6, <1>7, <1>8, <1>9, <1>10, <1>11, <1>12,
     <1>13, <1>14, <1>15, <1>16, <1>17, <1>18, <1>19, <1>20, <1>21, <1>22,
     <1>23, <1>24, <1>25, <1>26
     DEF Next, CallerNext, WriterThread, SdkCall, WatchdogThread, Finished

\* Acknowledged, acted and submitted sequences stay in order.
LEMMA OrderStep == IInv /\ [Next]_vars => InvOrder'
<1> SUFFICES ASSUME IInv, [Next]_vars PROVE InvOrder'
  OBVIOUS
<1> USE TimingAssumption DEF IInv, TypeOK, PortTypeOK, StreamTypeOK,
   WriterTypeOK, ThreadsTypeOK, Time, None, Faults, InvStart, InvOrder,
   Sending, Acted
<1> USE DEF vars, portVars, streamVars, writerVars
<1>1. CASE Tick
  BY <1>1 DEF Tick
<1>2. CASE StopCalled
  BY <1>2 DEF StopCalled
<1>3. CASE StopReturns
  BY <1>3 DEF StopReturns
<1>4. CASE WatchdogLeaves
  BY <1>4 DEF WatchdogLeaves
<1>5. CASE WatchdogFinds
  BY <1>5 DEF WatchdogFinds, Fail
<1>6. ASSUME NEW c \in Callers, Submit(c) PROVE InvOrder'
  BY <1>6 DEF Submit
<1>7. ASSUME NEW c \in Callers, SubmitAfterLease(c) PROVE InvOrder'
  BY <1>7 DEF SubmitAfterLease, Fail
<1>8. ASSUME NEW c \in Callers, WaitEnds(c) PROVE InvOrder'
  BY <1>8 DEF WaitEnds
<1>9. ASSUME NEW c \in Callers, WaitTimesOut(c) PROVE InvOrder'
  BY <1>9 DEF WaitTimesOut, Fail
<1>25. ASSUME NEW c \in Callers, WaitInterrupted(c) PROVE InvOrder'
  BY <1>25 DEF WaitInterrupted
<1>26. CASE StopInterrupted
  BY <1>26 DEF StopInterrupted
<1>10. CASE WriterLeaves
  BY <1>10 DEF WriterLeaves, WriterGoes
<1>11. CASE WriterFindsLapse
  BY <1>11 DEF WriterFindsLapse, WriterRaises
<1>12. CASE WriterTakesTarget
  BY <1>12 DEF WriterTakesTarget
<1>13. CASE WriterChecksPort
  BY <1>13 DEF WriterChecksPort, SendChecked, SendRefused, SendFailed,
     WriterGoes, WriterRaises
<1>14. CASE WriterRechecksCancel
  BY <1>14 DEF WriterRechecksCancel, SendFailed, WriterGoes, WriterRaises
<1>15. CASE SdkActs
  BY <1>15 DEF SdkActs, TargetActs, WriterGoes
<1>16. CASE SdkReturns
  BY <1>16 DEF SdkReturns
<1>17. CASE SdkRaises
  BY <1>17 DEF SdkRaises, SendFailed, WriterRaises
<1>18. CASE WriterRejectsSend
  BY <1>18 DEF WriterRejectsSend, WriterGoes, WriterRaises
<1>19. CASE WriterAcknowledges
  BY <1>19 DEF WriterAcknowledges, WriterGoes
<1>20. CASE WriterPeriodEnds
  BY <1>20 DEF WriterPeriodEnds, WriterGoes
<1>21. CASE WriterFails
  BY <1>21 DEF WriterFails, Fail, WriterGoes
<1>22. CASE WriterStopsPort
  <2>1. CASE ~NoHoldDue /\ WriterGoes("hold") /\ UNCHANGED streamVars
    BY <1>22, <2>1 DEF WriterStopsPort, StopLatched, NoHoldDue, WriterGoes,
       StopRaised, Fail
  <2>2. CASE NoHoldDue /\ ~stop_failure /\ WriterGoes("done") /\ UNCHANGED streamVars
    BY <1>22, <2>2 DEF WriterStopsPort, StopLatched, NoHoldDue, WriterGoes,
       StopRaised, Fail
  <2>3. CASE NoHoldDue /\ stop_failure /\ StopRaised
    BY <1>22, <2>3 DEF WriterStopsPort, StopLatched, NoHoldDue, WriterGoes,
       StopRaised, Fail
  <2> QED
    BY <1>22, <2>1, <2>2, <2>3 DEF WriterStopsPort
<1>23. CASE WriterHolds
  <2>1. CASE HoldActs /\ WriterGoes("done") /\ UNCHANGED streamVars
    BY <1>23, <2>1 DEF WriterHolds, HoldActs, HoldFailed, WriterGoes,
       StopRaised, Fail
  <2>2. CASE HoldFailed /\ StopRaised
    BY <1>23, <2>2 DEF WriterHolds, HoldActs, HoldFailed, WriterGoes,
       StopRaised, Fail
  <2> QED
    BY <1>23, <2>1, <2>2 DEF WriterHolds
<1>24. CASE UNCHANGED vars
  BY <1>24
<1> QED
  BY <1>1, <1>2, <1>3, <1>4, <1>5, <1>6, <1>7, <1>8, <1>9, <1>10, <1>11, <1>12,
     <1>13, <1>14, <1>15, <1>16, <1>17, <1>18, <1>19, <1>20, <1>21, <1>22,
     <1>23, <1>24, <1>25, <1>26
     DEF Next, CallerNext, WriterThread, SdkCall, WatchdogThread, Finished

\* The port's latches follow the writer.
LEMMA PortStep == IInv /\ [Next]_vars => InvPort'
<1> SUFFICES ASSUME IInv, [Next]_vars PROVE InvPort'
  OBVIOUS
<1> USE TimingAssumption DEF IInv, TypeOK, PortTypeOK, StreamTypeOK,
   WriterTypeOK, ThreadsTypeOK, Time, None, Faults, InvStart, InvOrder,
   InvPort, Cleared, Acted, Ending
<1> USE DEF vars, portVars, streamVars, writerVars
<1>1. CASE Tick
  BY <1>1 DEF Tick
<1>2. CASE StopCalled
  BY <1>2 DEF StopCalled
<1>3. CASE StopReturns
  BY <1>3 DEF StopReturns
<1>4. CASE WatchdogLeaves
  BY <1>4 DEF WatchdogLeaves
<1>5. CASE WatchdogFinds
  BY <1>5 DEF WatchdogFinds, Fail
<1>6. ASSUME NEW c \in Callers, Submit(c) PROVE InvPort'
  BY <1>6 DEF Submit
<1>7. ASSUME NEW c \in Callers, SubmitAfterLease(c) PROVE InvPort'
  BY <1>7 DEF SubmitAfterLease, Fail
<1>8. ASSUME NEW c \in Callers, WaitEnds(c) PROVE InvPort'
  BY <1>8 DEF WaitEnds
<1>9. ASSUME NEW c \in Callers, WaitTimesOut(c) PROVE InvPort'
  BY <1>9 DEF WaitTimesOut, Fail
<1>25. ASSUME NEW c \in Callers, WaitInterrupted(c) PROVE InvPort'
  BY <1>25 DEF WaitInterrupted
<1>26. CASE StopInterrupted
  BY <1>26 DEF StopInterrupted
<1>10. CASE WriterLeaves
  BY <1>10 DEF WriterLeaves, WriterGoes
<1>11. CASE WriterFindsLapse
  BY <1>11 DEF WriterFindsLapse, WriterRaises
<1>12. CASE WriterTakesTarget
  BY <1>12 DEF WriterTakesTarget
<1>13. CASE WriterChecksPort
  BY <1>13 DEF WriterChecksPort, SendChecked, SendRefused, SendFailed,
     WriterGoes, WriterRaises
<1>14. CASE WriterRechecksCancel
  <2>1. CASE ~halt /\ WriterGoes("sdk") /\ UNCHANGED portVars
    BY <1>14, <2>1 DEF WriterRechecksCancel, SendFailed, WriterGoes,
       WriterRaises
  <2>2. CASE halt /\ SendFailed /\ WriterRaises("port")
    BY <1>14, <2>2 DEF WriterRechecksCancel, SendFailed, WriterGoes,
       WriterRaises
  <2> QED
    BY <1>14, <2>1, <2>2 DEF WriterRechecksCancel
<1>15. CASE SdkActs
  BY <1>15 DEF SdkActs, TargetActs, WriterGoes
<1>16. CASE SdkReturns
  BY <1>16 DEF SdkReturns
<1>17. CASE SdkRaises
  BY <1>17 DEF SdkRaises, SendFailed, WriterRaises
<1>18. CASE WriterRejectsSend
  BY <1>18 DEF WriterRejectsSend, WriterGoes, WriterRaises
<1>19. CASE WriterAcknowledges
  BY <1>19 DEF WriterAcknowledges, WriterGoes
<1>20. CASE WriterPeriodEnds
  BY <1>20 DEF WriterPeriodEnds, WriterGoes
<1>21. CASE WriterFails
  BY <1>21 DEF WriterFails, Fail, WriterGoes
<1>22. CASE WriterStopsPort
  <2>1. CASE ~NoHoldDue /\ WriterGoes("hold") /\ UNCHANGED streamVars
    BY <1>22, <2>1 DEF WriterStopsPort, StopLatched, NoHoldDue, WriterGoes,
       StopRaised, Fail
  <2>2. CASE NoHoldDue /\ ~stop_failure /\ WriterGoes("done") /\ UNCHANGED streamVars
    BY <1>22, <2>2 DEF WriterStopsPort, StopLatched, NoHoldDue, WriterGoes,
       StopRaised, Fail
  <2>3. CASE NoHoldDue /\ stop_failure /\ StopRaised
    BY <1>22, <2>3 DEF WriterStopsPort, StopLatched, NoHoldDue, WriterGoes,
       StopRaised, Fail
  <2> QED
    BY <1>22, <2>1, <2>2, <2>3 DEF WriterStopsPort
<1>23. CASE WriterHolds
  <2>1. CASE HoldActs /\ WriterGoes("done") /\ UNCHANGED streamVars
    BY <1>23, <2>1 DEF WriterHolds, HoldActs, HoldFailed, WriterGoes,
       StopRaised, Fail
  <2>2. CASE HoldFailed /\ StopRaised
    BY <1>23, <2>2 DEF WriterHolds, HoldActs, HoldFailed, WriterGoes,
       StopRaised, Fail
  <2> QED
    BY <1>23, <2>1, <2>2 DEF WriterHolds
<1>24. CASE UNCHANGED vars
  BY <1>24
<1> QED
  BY <1>1, <1>2, <1>3, <1>4, <1>5, <1>6, <1>7, <1>8, <1>9, <1>10, <1>11, <1>12,
     <1>13, <1>14, <1>15, <1>16, <1>17, <1>18, <1>19, <1>20, <1>21, <1>22,
     <1>23, <1>24, <1>25, <1>26
     DEF Next, CallerNext, WriterThread, SdkCall, WatchdogThread, Finished

\* A stray target leaves the writer no way back.
LEMMA LateStep == IInv /\ [Next]_vars => InvLate'
<1> SUFFICES ASSUME IInv, [Next]_vars PROVE InvLate'
  OBVIOUS
<1> USE TimingAssumption DEF IInv, TypeOK, PortTypeOK, StreamTypeOK,
   WriterTypeOK, ThreadsTypeOK, Time, None, Faults, InvStart, InvLate, Acted,
   Ending
<1> USE DEF vars, portVars, streamVars, writerVars
<1>1. CASE Tick
  BY <1>1 DEF Tick
<1>2. CASE StopCalled
  BY <1>2 DEF StopCalled
<1>3. CASE StopReturns
  BY <1>3 DEF StopReturns
<1>4. CASE WatchdogLeaves
  BY <1>4 DEF WatchdogLeaves
<1>5. CASE WatchdogFinds
  BY <1>5 DEF WatchdogFinds, Fail
<1>6. ASSUME NEW c \in Callers, Submit(c) PROVE InvLate'
  BY <1>6 DEF Submit
<1>7. ASSUME NEW c \in Callers, SubmitAfterLease(c) PROVE InvLate'
  BY <1>7 DEF SubmitAfterLease, Fail
<1>8. ASSUME NEW c \in Callers, WaitEnds(c) PROVE InvLate'
  BY <1>8 DEF WaitEnds
<1>9. ASSUME NEW c \in Callers, WaitTimesOut(c) PROVE InvLate'
  BY <1>9 DEF WaitTimesOut, Fail
<1>25. ASSUME NEW c \in Callers, WaitInterrupted(c) PROVE InvLate'
  BY <1>25 DEF WaitInterrupted
<1>26. CASE StopInterrupted
  BY <1>26 DEF StopInterrupted
<1>10. CASE WriterLeaves
  BY <1>10 DEF WriterLeaves, WriterGoes
<1>11. CASE WriterFindsLapse
  BY <1>11 DEF WriterFindsLapse, WriterRaises
<1>12. CASE WriterTakesTarget
  BY <1>12 DEF WriterTakesTarget
<1>13. CASE WriterChecksPort
  BY <1>13 DEF WriterChecksPort, SendChecked, SendRefused, SendFailed,
     WriterGoes, WriterRaises
<1>14. CASE WriterRechecksCancel
  BY <1>14 DEF WriterRechecksCancel, SendFailed, WriterGoes, WriterRaises
<1>15. CASE SdkActs
  BY <1>15 DEF SdkActs, TargetActs, WriterGoes
<1>16. CASE SdkReturns
  BY <1>16 DEF SdkReturns
<1>17. CASE SdkRaises
  BY <1>17 DEF SdkRaises, SendFailed, WriterRaises
<1>18. CASE WriterRejectsSend
  BY <1>18 DEF WriterRejectsSend, WriterGoes, WriterRaises, SendTooSlow,
     LeaseLapsed
<1>19. CASE WriterAcknowledges
  BY <1>19 DEF WriterAcknowledges, WriterGoes, SendTooSlow, LeaseLapsed
<1>20. CASE WriterPeriodEnds
  BY <1>20 DEF WriterPeriodEnds, WriterGoes
<1>21. CASE WriterFails
  BY <1>21 DEF WriterFails, Fail, WriterGoes
<1>22. CASE WriterStopsPort
  <2>1. CASE ~NoHoldDue /\ WriterGoes("hold") /\ UNCHANGED streamVars
    BY <1>22, <2>1 DEF WriterStopsPort, StopLatched, NoHoldDue, WriterGoes,
       StopRaised, Fail
  <2>2. CASE NoHoldDue /\ ~stop_failure /\ WriterGoes("done") /\ UNCHANGED streamVars
    BY <1>22, <2>2 DEF WriterStopsPort, StopLatched, NoHoldDue, WriterGoes,
       StopRaised, Fail
  <2>3. CASE NoHoldDue /\ stop_failure /\ StopRaised
    BY <1>22, <2>3 DEF WriterStopsPort, StopLatched, NoHoldDue, WriterGoes,
       StopRaised, Fail
  <2> QED
    BY <1>22, <2>1, <2>2, <2>3 DEF WriterStopsPort
<1>23. CASE WriterHolds
  <2>1. CASE HoldActs /\ WriterGoes("done") /\ UNCHANGED streamVars
    BY <1>23, <2>1 DEF WriterHolds, HoldActs, HoldFailed, WriterGoes,
       StopRaised, Fail
  <2>2. CASE HoldFailed /\ StopRaised
    BY <1>23, <2>2 DEF WriterHolds, HoldActs, HoldFailed, WriterGoes,
       StopRaised, Fail
  <2> QED
    BY <1>23, <2>1, <2>2 DEF WriterHolds
<1>24. CASE UNCHANGED vars
  BY <1>24
<1> QED
  BY <1>1, <1>2, <1>3, <1>4, <1>5, <1>6, <1>7, <1>8, <1>9, <1>10, <1>11, <1>12,
     <1>13, <1>14, <1>15, <1>16, <1>17, <1>18, <1>19, <1>20, <1>21, <1>22,
     <1>23, <1>24, <1>25, <1>26
     DEF Next, CallerNext, WriterThread, SdkCall, WatchdogThread, Finished

\* A finished writer has held, or has recorded why not.
LEMMA EndStep == IInv /\ [Next]_vars => InvEnd'
<1> SUFFICES ASSUME IInv, [Next]_vars PROVE InvEnd'
  OBVIOUS
<1> USE TimingAssumption DEF IInv, TypeOK, PortTypeOK, StreamTypeOK,
   WriterTypeOK, ThreadsTypeOK, Time, None, Faults, InvStart, InvPort, InvEnd,
   Cleared, Ending
<1> USE DEF vars, portVars, streamVars, writerVars
<1>1. CASE Tick
  BY <1>1 DEF Tick, ThreadsEnded
<1>2. CASE StopCalled
  BY <1>2 DEF StopCalled, ThreadsEnded
<1>3. CASE StopReturns
  BY <1>3 DEF StopReturns, ThreadsEnded
<1>4. CASE WatchdogLeaves
  BY <1>4 DEF WatchdogLeaves, ThreadsEnded
<1>5. CASE WatchdogFinds
  BY <1>5 DEF WatchdogFinds, Fail, ThreadsEnded
<1>6. ASSUME NEW c \in Callers, Submit(c) PROVE InvEnd'
  BY <1>6 DEF Submit, ThreadsEnded
<1>7. ASSUME NEW c \in Callers, SubmitAfterLease(c) PROVE InvEnd'
  BY <1>7 DEF SubmitAfterLease, Fail, ThreadsEnded
<1>8. ASSUME NEW c \in Callers, WaitEnds(c) PROVE InvEnd'
  BY <1>8 DEF WaitEnds, ThreadsEnded
<1>9. ASSUME NEW c \in Callers, WaitTimesOut(c) PROVE InvEnd'
  BY <1>9 DEF WaitTimesOut, Fail, ThreadsEnded
<1>25. ASSUME NEW c \in Callers, WaitInterrupted(c) PROVE InvEnd'
  BY <1>25 DEF WaitInterrupted, ThreadsEnded
<1>26. CASE StopInterrupted
  BY <1>26 DEF StopInterrupted, ThreadsEnded
<1>10. CASE WriterLeaves
  BY <1>10 DEF WriterLeaves, WriterGoes, ThreadsEnded
<1>11. CASE WriterFindsLapse
  BY <1>11 DEF WriterFindsLapse, WriterRaises, ThreadsEnded
<1>12. CASE WriterTakesTarget
  BY <1>12 DEF WriterTakesTarget, ThreadsEnded
<1>13. CASE WriterChecksPort
  BY <1>13 DEF WriterChecksPort, SendChecked, SendRefused, SendFailed,
     WriterGoes, WriterRaises, ThreadsEnded
<1>14. CASE WriterRechecksCancel
  BY <1>14 DEF WriterRechecksCancel, SendFailed, WriterGoes, WriterRaises,
     ThreadsEnded
<1>15. CASE SdkActs
  BY <1>15 DEF SdkActs, TargetActs, WriterGoes, ThreadsEnded
<1>16. CASE SdkReturns
  BY <1>16 DEF SdkReturns, ThreadsEnded
<1>17. CASE SdkRaises
  BY <1>17 DEF SdkRaises, SendFailed, WriterRaises, ThreadsEnded
<1>18. CASE WriterRejectsSend
  BY <1>18 DEF WriterRejectsSend, WriterGoes, WriterRaises, ThreadsEnded
<1>19. CASE WriterAcknowledges
  BY <1>19 DEF WriterAcknowledges, WriterGoes, ThreadsEnded
<1>20. CASE WriterPeriodEnds
  BY <1>20 DEF WriterPeriodEnds, WriterGoes, ThreadsEnded
<1>21. CASE WriterFails
  BY <1>21 DEF WriterFails, Fail, WriterGoes, ThreadsEnded
<1>22. CASE WriterStopsPort
  <2>1. CASE ~NoHoldDue /\ WriterGoes("hold") /\ UNCHANGED streamVars
    BY <1>22, <2>1 DEF WriterStopsPort, StopLatched, NoHoldDue, WriterGoes,
       StopRaised, Fail, ThreadsEnded
  <2>2. CASE NoHoldDue /\ ~stop_failure /\ WriterGoes("done") /\ UNCHANGED streamVars
    BY <1>22, <2>2 DEF WriterStopsPort, StopLatched, NoHoldDue, WriterGoes,
       StopRaised, Fail, ThreadsEnded
  <2>3. CASE NoHoldDue /\ stop_failure /\ StopRaised
    BY <1>22, <2>3 DEF WriterStopsPort, StopLatched, NoHoldDue, WriterGoes,
       StopRaised, Fail, ThreadsEnded
  <2> QED
    BY <1>22, <2>1, <2>2, <2>3 DEF WriterStopsPort
<1>23. CASE WriterHolds
  <2>1. CASE HoldActs /\ WriterGoes("done") /\ UNCHANGED streamVars
    BY <1>23, <2>1 DEF WriterHolds, HoldActs, HoldFailed, WriterGoes,
       StopRaised, Fail, ThreadsEnded
  <2>2. CASE HoldFailed /\ StopRaised
    BY <1>23, <2>2 DEF WriterHolds, HoldActs, HoldFailed, WriterGoes,
       StopRaised, Fail, ThreadsEnded
  <2> QED
    BY <1>23, <2>1, <2>2 DEF WriterHolds
<1>24. CASE UNCHANGED vars
  BY <1>24 DEF ThreadsEnded
<1> QED
  BY <1>1, <1>2, <1>3, <1>4, <1>5, <1>6, <1>7, <1>8, <1>9, <1>10, <1>11, <1>12,
     <1>13, <1>14, <1>15, <1>16, <1>17, <1>18, <1>19, <1>20, <1>21, <1>22,
     <1>23, <1>24, <1>25, <1>26
     DEF Next, CallerNext, WriterThread, SdkCall, WatchdogThread, Finished

------------------------------------------------------------------------------
(* The theorems.                                                             *)

\* The invariant holds initially and is preserved: whatever the timing of the
\* threads, each part of IInv is true of every reachable state.
THEOREM Inductive == Spec => []IInv
<1>1. Init => IInv
  <2> SUFFICES ASSUME Init PROVE IInv
    OBVIOUS
  <2> USE TimingAssumption DEF Init, PortInit, Time, None, Faults
  <2>1. TypeOK
    <3>1. PortTypeOK
      BY DEF PortTypeOK
    <3>2. StreamTypeOK
      <4>1. 0 \in 0..MaxSeq
        BY DEF Init
      <4> QED
        BY <4>1 DEF StreamTypeOK
    <3>3. WriterTypeOK
      BY DEF WriterTypeOK
    <3>4. ThreadsTypeOK
      <4>1. 0 \in 0..MaxSeq /\ 0 \in 0..MaxTime
        OBVIOUS
      <4> HIDE DEF Time
      <4> QED
        BY <4>1 DEF ThreadsTypeOK, Time
    <3> QED
      BY <3>1, <3>2, <3>3, <3>4 DEF TypeOK
  <2>2. InvStart
    BY DEF InvStart
  <2>3. InvOrder
    BY DEF InvOrder, Sending, Acted
  <2>4. InvPort
    BY DEF InvPort, Cleared
  <2>5. InvLate
    BY DEF InvLate
  <2>6. InvEnd
    BY DEF InvEnd, Ending
  <2> QED
    BY <2>1, <2>2, <2>3, <2>4, <2>5, <2>6 DEF IInv
<1>2. IInv /\ [Next]_vars => IInv'
  BY TypeStep, StartStep, OrderStep, PortStep, LateStep, EndStep DEF IInv
<1> QED
  BY <1>1, <1>2, PTL DEF Spec

\* Every variable of the stream and the port keeps its type.
THEOREM TypeCorrect == Spec => []TypeOK
<1>1. IInv => TypeOK
  BY DEF IInv
<1> QED
  BY <1>1, Inductive, PTL

\* stop() never confirms a robot left on a target or a thread left running.
THEOREM ConfirmedStopIsStillTheorem == Spec => []ConfirmedStopIsStill
<1>1. IInv => ConfirmedStopIsStill
  BY DEF IInv, TypeOK, PortTypeOK, InvStart, InvEnd, ConfirmedStopIsStill, ThreadsEnded
<1> QED
  BY <1>1, Inductive, PTL

\* The robot has acted on whatever was acknowledged.
THEOREM AcknowledgedTargetActedTheorem == Spec => []AcknowledgedTargetActed
<1>1. IInv => AcknowledgedTargetActed
  BY DEF IInv, InvOrder, AcknowledgedTargetActed
<1> QED
  BY <1>1, Inductive, PTL

\* After a stray target, or once the hold is on the wire, nothing but a hold
\* reaches the robot and nothing more is acknowledged.
THEOREM LateSendEndsPublicationTheorem == Spec => LateSendEndsPublication
<1> DEFINE Quiet == ack_sequence' = ack_sequence /\ (wire' = wire \/ wire'.kind = "hold")
<1>1. ASSUME IInv, [Next]_vars, late \/ wire.kind = "hold" PROVE Quiet
  <2> USE <1>1 DEF IInv, portVars, streamVars
  <2>1. CASE SdkActs
    BY <2>1 DEF SdkActs, InvLate, InvPort, Acted, Ending
  <2>2. CASE WriterAcknowledges
    BY <2>2 DEF WriterAcknowledges, InvLate, InvPort, Acted, Ending, LeaseLapsed
  <2>3. CASE WriterHolds
    <3>1. wire' = wire \/ wire' = [wire EXCEPT !.kind = "hold"]
      BY <2>3 DEF WriterHolds, HoldActs, HoldFailed
    <3>2. ack_sequence' = ack_sequence
      BY <2>3 DEF WriterHolds, StopRaised
    <3> QED
      BY <3>1, <3>2 DEF TypeOK, PortTypeOK
  <2>4. CASE WriterStopsPort
    BY <2>4 DEF WriterStopsPort, StopLatched, StopRaised
  <2>5. CASE WriterChecksPort \/ WriterRechecksCancel \/ SdkRaises
    BY <2>5 DEF WriterChecksPort, WriterRechecksCancel, SdkRaises,
       SendChecked, SendRefused, SendFailed
  <2>6. CASE Tick \/ StopCalled \/ StopReturns \/ StopInterrupted \/ WatchdogThread
    BY <2>6 DEF Tick, StopCalled, StopReturns, StopInterrupted, WatchdogThread,
       WatchdogFinds, WatchdogLeaves
  <2>7. ASSUME NEW c \in Callers, CallerNext(c) PROVE Quiet
    BY <2>7 DEF CallerNext, Submit, SubmitAfterLease, WaitEnds, WaitTimesOut,
       WaitInterrupted
  <2>8. CASE WriterLeaves \/ WriterFindsLapse \/ WriterTakesTarget \/ WriterPeriodEnds
    BY <2>8 DEF WriterLeaves, WriterFindsLapse, WriterTakesTarget, WriterPeriodEnds
  <2>9. CASE WriterRejectsSend \/ WriterFails \/ SdkReturns
    BY <2>9 DEF WriterRejectsSend, WriterFails, SdkReturns
  <2>10. CASE UNCHANGED vars
    BY <2>10 DEF vars
  <2> QED
    BY <2>1, <2>2, <2>3, <2>4, <2>5, <2>6, <2>7, <2>8, <2>9, <2>10
       DEF Next, WriterThread, SdkCall, Finished, vars
<1>2. IInv /\ [Next]_vars =>
        [late \/ wire.kind = "hold" => ack_sequence' = ack_sequence
                                        /\ (wire' = wire \/ wire'.kind = "hold")]_vars
  BY <1>1
<1> QED
  BY <1>2, Inductive, PTL DEF Spec, LateSendEndsPublication

\* Every behaviour of the stream is one of the abstract publisher.
THEOREM Refinement == Spec => ImplementsLeasedPublisher
<1> DEFINE Abs == [Publisher!Next]_(Publisher!vars)
<1>1. Init => Publisher!Init
  BY DEF Init, PortInit, Publisher!Init
<1>2. ASSUME IInv, [Next]_vars PROVE Abs
  <2> USE <1>2
  <2>1. ASSUME UNCHANGED <<halt, stop_fault, sequence, ack_sequence, wire, late>>,
               writer' = writer \/ (writer # "done" /\ writer' # "done")
        PROVE Abs
    BY <2>1 DEF Publisher!vars
  <2>2. ASSUME halt' = TRUE, writer # "done" => writer' # "done",
               writer = "done" => writer' = "done" /\ halt,
               UNCHANGED <<stop_fault, sequence, ack_sequence, wire, late>>
        PROVE Abs
    BY <2>2 DEF Publisher!vars, Publisher!Next, Publisher!Close, IInv, TypeOK, StreamTypeOK
  <2>3. CASE Tick \/ StopReturns \/ StopInterrupted \/ WatchdogLeaves
    BY <2>1, <2>3 DEF Tick, StopReturns, StopInterrupted, WatchdogLeaves, writerVars,
       streamVars, portVars
  <2>4. CASE StopCalled \/ WatchdogFinds
    BY <2>2, <2>4 DEF StopCalled, WatchdogFinds, Fail, writerVars, portVars, IInv, InvEnd, Ending
  <2>5. ASSUME NEW c \in Callers, Submit(c) PROVE Abs
    <3>1. ~late
      BY <2>5 DEF Submit, IInv, InvLate, InvStart, TypeOK, ThreadsTypeOK, Time, None
    <3>2. writer # "done" /\ writer' # "done"
      BY <2>5 DEF Submit, IInv, InvEnd, Ending
    <3> QED
      BY <2>5, <3>1, <3>2 DEF Submit, portVars, Publisher!Next, Publisher!Command
  <2>6. ASSUME NEW c \in Callers, SubmitAfterLease(c) \/ WaitTimesOut(c) PROVE Abs
    BY <2>2, <2>6 DEF SubmitAfterLease, WaitTimesOut, Fail, writerVars, portVars, IInv,
       InvEnd, Ending
  <2>7. ASSUME NEW c \in Callers, WaitEnds(c) \/ WaitInterrupted(c) PROVE Abs
    BY <2>1, <2>7 DEF WaitEnds, WaitInterrupted, writerVars, streamVars, portVars
  <2>8. CASE WriterLeaves \/ WriterFindsLapse \/ WriterTakesTarget \/ WriterPeriodEnds
    BY <2>1, <2>8 DEF WriterLeaves, WriterFindsLapse, WriterTakesTarget, WriterPeriodEnds,
       WriterGoes, WriterRaises, streamVars, portVars
  <2>9. CASE WriterChecksPort \/ WriterRechecksCancel
    BY <2>1, <2>9 DEF WriterChecksPort, WriterRechecksCancel, SendChecked, SendRefused,
       SendFailed, WriterGoes, WriterRaises, streamVars, portVars
  <2>10. CASE SdkReturns \/ SdkRaises \/ WriterRejectsSend
    BY <2>1, <2>10 DEF SdkReturns, SdkRaises, WriterRejectsSend, SendFailed, WriterGoes,
       WriterRaises, streamVars, portVars
  <2>11. CASE SdkActs
    <3>1. ~late /\ writer # "done" /\ writer' # "done"
      BY <2>11 DEF SdkActs, WriterGoes, IInv, InvLate, Acted, Ending
    <3>2. target \in {ack_sequence, sequence}
      BY <2>11 DEF SdkActs, IInv, InvOrder, Sending, TypeOK, StreamTypeOK, WriterTypeOK
    <3>3. CASE late'
      BY <2>11, <3>1, <3>2, <3>3 DEF SdkActs, TargetActs, streamVars, Publisher!Next,
         Publisher!ActLate
    <3>4. CASE ~late'
      <4>1. ~halt
        BY <2>11, <3>4 DEF SdkActs
      <4>2. late' = late
        BY <2>11, <3>1, <3>4 DEF SdkActs, IInv, TypeOK, ThreadsTypeOK
      <4> QED
        BY <2>11, <3>1, <3>2, <4>1, <4>2 DEF SdkActs, TargetActs, streamVars, Publisher!Next,
           Publisher!Act
    <3> QED
      BY <3>3, <3>4
  <2>12. CASE WriterAcknowledges
    <3>1. ~late /\ writer # "done" /\ writer' # "done"
      BY <2>12 DEF WriterAcknowledges, LeaseLapsed, WriterGoes, IInv, InvLate
    <3>2. wire.kind = "target" /\ wire.seq = target
      BY <2>12 DEF WriterAcknowledges, IInv, InvOrder, Acted
    <3>3. ack_sequence' = wire.seq \/ ack_sequence' = ack_sequence
      BY <2>12, <3>2 DEF WriterAcknowledges
    <3> QED
      BY <2>12, <3>1, <3>2, <3>3 DEF WriterAcknowledges, portVars, Publisher!Next,
         Publisher!Acknowledge, Publisher!vars
  <2>13. CASE WriterFails
    BY <2>2, <2>13 DEF WriterFails, Fail, WriterGoes, portVars
  <2>14. CASE WriterStopsPort
    <3>1. halt /\ ~stop_fault /\ writer = "stop"
      BY <2>14 DEF WriterStopsPort, IInv, InvEnd, Ending
    <3>2. UNCHANGED <<sequence, ack_sequence, wire, late>>
      BY <2>14 DEF WriterStopsPort, StopLatched, StopRaised, streamVars
    <3>3. CASE ~NoHoldDue /\ WriterGoes("hold") /\ UNCHANGED streamVars
      BY <2>1, <3>1, <3>2, <3>3 DEF WriterGoes, streamVars
    <3>4. CASE NoHoldDue /\ ~stop_failure /\ WriterGoes("done") /\ UNCHANGED streamVars
      <4>1. wire.kind # "target"
        BY <3>1, <3>4 DEF NoHoldDue, IInv, InvPort
      <4> QED
        BY <3>1, <3>2, <3>4, <4>1 DEF WriterGoes, streamVars, Publisher!Next, Publisher!Hold
    <3>5. CASE NoHoldDue /\ stop_failure /\ StopRaised
      BY <3>1, <3>2, <3>5 DEF StopRaised, WriterGoes, Publisher!Next, Publisher!GiveUp
    <3> QED
      BY <2>14, <3>3, <3>4, <3>5 DEF WriterStopsPort
  <2>15. CASE WriterHolds
    <3>1. halt /\ ~stop_fault /\ writer = "hold" /\ late' = late
      BY <2>15 DEF WriterHolds, IInv, InvEnd, Ending
    <3>2. CASE HoldActs /\ WriterGoes("done") /\ UNCHANGED streamVars
      <4>1. wire'.kind = "hold" /\ wire' = [wire EXCEPT !.kind = "hold"]
        BY <3>2 DEF HoldActs, IInv, TypeOK, PortTypeOK
      <4> QED
        BY <3>1, <3>2, <4>1 DEF WriterGoes, streamVars, Publisher!Next, Publisher!Hold
    <3>3. CASE HoldFailed /\ StopRaised
      BY <3>1, <3>3 DEF HoldFailed, StopRaised, WriterGoes, Publisher!Next,
         Publisher!GiveUp
    <3> QED
      BY <2>15, <3>2, <3>3 DEF WriterHolds
  <2>16. CASE UNCHANGED vars
    BY <2>1, <2>16 DEF vars, writerVars, streamVars, portVars
  <2> QED
    BY <2>3, <2>4, <2>5, <2>6, <2>7, <2>8, <2>9, <2>10, <2>11, <2>12, <2>13, <2>14,
       <2>15, <2>16
       DEF Next, CallerNext, WriterThread, SdkCall, WatchdogThread, Finished
<1> QED
  BY <1>1, <1>2, Inductive, PTL DEF Spec, ImplementsLeasedPublisher, Publisher!Spec

==============================================================================

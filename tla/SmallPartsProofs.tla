--------------------------- MODULE SmallPartsProofs ---------------------------
(***************************************************************************)
(* Proofs about three small parts.  InsertSearch: the search meets its     *)
(* contract for every array, stamp and width of the RTP clock.  DacpClient *)
(* keeps the token of every sender and the port of every session apart.    *)
(* PtpClock locks on no other clock than the master that was named.        *)
(***************************************************************************)
EXTENDS InsertSearch, DacpClient, PtpClock, SequenceTheorems, TLAPS

SearchInv == SearchTypeOK /\ Bracketed

(* A probe falls inside the interval, so that both halves shrink it.       *)
LEMMA MidInside ==
  ASSUME lo \in Int, hi \in Int, lo < hi
  PROVE  lo <= Mid /\ Mid < hi /\ Mid \in Int
BY DEF Mid

LEMMA SearchStarts == SearchInit => SearchInv
BY CapacityAssumption DEF SearchInit, SearchInv, SearchTypeOK, Bracketed

LEMMA SearchStep == SearchInv /\ [SearchNext]_searchVars => SearchInv'
<1> SUFFICES ASSUME SearchInv, [SearchNext]_searchVars PROVE SearchInv'
  OBVIOUS
<1> USE DEF SearchInv, SearchTypeOK, Bracketed
<1>1. CASE Probe
  <2>1. lo < hi /\ stamps' = stamps /\ timestamp' = timestamp
    BY <1>1 DEF Probe
  <2>2. lo <= Mid /\ Mid < hi /\ Mid \in Int
    BY <2>1, MidInside
  <2>3. CASE Before(stamps[Mid + 1], timestamp)
    <3>1. lo' = Mid + 1 /\ hi' = hi
      BY <1>1, <2>3 DEF Probe
    <3>2. Before(stamps[lo'], timestamp)
      BY <2>3, <3>1
    <3>3. SearchTypeOK'
      BY <2>1, <2>2, <3>1
    <3>4. Bracketed'
      BY <2>1, <3>1, <3>2 DEF Before
    <3> QED BY <3>3, <3>4
  <2>4. CASE ~Before(stamps[Mid + 1], timestamp)
    <3>1. hi' = Mid /\ lo' = lo
      BY <1>1, <2>4 DEF Probe
    <3>2. ~Before(stamps[hi' + 1], timestamp)
      BY <2>4, <3>1
    <3>3. SearchTypeOK'
      BY <2>1, <2>2, <3>1
    <3>4. Bracketed'
      BY <2>1, <3>1, <3>2 DEF Before
    <3> QED BY <3>3, <3>4
  <2> QED BY <2>3, <2>4
<1>2. CASE UNCHANGED searchVars
  BY <1>2 DEF searchVars, Before
<1> QED BY <1>1, <1>2 DEF SearchNext

(* The bounds of the search and what it has ruled out.                     *)
THEOREM SearchInvariant == SearchSpec => []SearchInv
BY SearchStarts, SearchStep, PTL DEF SearchSpec

(* sorted_insert_pos returns a position between an earlier frame and one   *)
(* that is not earlier, for every array it may be called with.             *)
THEOREM SearchEndsInGap == SearchSpec => []EndsInGap
<1>1. SearchInv => EndsInGap
  BY DEF SearchInv, SearchTypeOK, Bracketed, EndsInGap, Gaps
<1> QED BY <1>1, SearchInvariant, PTL

-----------------------------------------------------------------------------
(***************************************************************************)
(* The DACP client.  A session names the token and the address together,   *)
(* and forgetting it leaves the address: the token is that of the address  *)
(* or none.  A request is a copy of a session.                             *)
(***************************************************************************)
TokenOfAddress ==
  /\ remote \in {NoSender, ip}
  /\ request.remote \in {NoSender, request.ip}

(***************************************************************************)
(* There is an address wherever there is a session or a port, and while    *)
(* one is asked for.                                                       *)
(***************************************************************************)
AddressIsKnown ==
  /\ id # NoSender => ip # NoSender
  /\ port # NoSender => ip # NoSender
  /\ worker = "asking" => ip # NoSender

(***************************************************************************)
(* As long as the session has not changed within it, a query is about the  *)
(* current one.                                                            *)
(***************************************************************************)
AsksForItself == worker = "asking" /\ ~strayed => wanted = id

DacpInv == DacpTypeOK /\ TokenOfAddress /\ AddressIsKnown /\ AsksForItself /\ OwnPort

(***************************************************************************)
(* The queue takes a command at either end while there is room.            *)
(***************************************************************************)
Commands == {"discover", "command"}
QueueType == queue \in Seq(Commands) /\ Len(queue) <= QueueLength

LEMMA DiscoverKeepsQueue ==
  ASSUME QueueType, Discover
  PROVE  QueueType'
<1>1. CASE ~Room
  BY <1>1 DEF QueueType, Discover
<1>2. CASE Room
  <2>1. queue' = <<"discover">> \o queue /\ <<"discover">> \in Seq(Commands)
    BY <1>2 DEF Discover, Commands
  <2>2. queue' \in Seq(Commands) /\ Len(queue') = Len(queue) + 1
    BY <2>1, ConcatProperties DEF QueueType
  <2> QED
    BY <1>2, <2>2, DacpAssumption DEF QueueType, Room
<1> QED
  BY <1>1, <1>2

LEMMA CommandKeepsQueue ==
  ASSUME QueueType, Room, queue' = Append(queue, "command")
  PROVE  QueueType'
BY DacpAssumption, AppendProperties DEF QueueType, Room, Commands

LEMMA TailKeepsQueue ==
  ASSUME QueueType, queue # <<>>, queue' = Tail(queue)
  PROVE  QueueType'
BY DacpAssumption, HeadTailProperties DEF QueueType

LEMMA DacpInitInv == DacpInit => DacpInv
<1> SUFFICES ASSUME DacpInit  PROVE DacpInv
  OBVIOUS
<1> USE DEF DacpInit
<1>1. queue \in Seq({"discover", "command"}) /\ Len(queue) <= QueueLength
  BY DacpAssumption
<1>2. request \in Requests
  BY DEF Requests, NoRequest, Named, Claimed
<1>3. DacpTypeOK
  BY <1>1, <1>2 DEF DacpTypeOK, Named, Claimed
<1>4. TokenOfAddress /\ AddressIsKnown /\ AsksForItself /\ OwnPort
  BY DEF TokenOfAddress, AddressIsKnown, AsksForItself, OwnPort, NoRequest
<1> QED
  BY <1>3, <1>4 DEF DacpInv

(***************************************************************************)
(* The steps; those of the session first.                                  *)
(***************************************************************************)
LEMMA DacpStepInv ==
  ASSUME DacpInv, DacpNext
  PROVE  DacpInv'
<1> USE DEF DacpInv, DacpTypeOK, TokenOfAddress, AddressIsKnown, AsksForItself, OwnPort, Named, Claimed,
        Requests, NoRequest
<1>1. QueueType
  BY DEF QueueType, Commands
<1>2. ASSUME QueueType'
      PROVE  queue' \in Seq({"discover", "command"}) /\ Len(queue') <= QueueLength
  BY <1>2 DEF QueueType, Commands
<1>3. CASE StartDacp
  BY <1>3 DEF StartDacp, session
<1>4. ASSUME NEW c \in Claims, SetSession(c)
      PROVE  DacpInv'
  <2>1. c.of \in Senders /\ c # NoSender /\ c.of # NoSender
    BY DacpAssumption DEF Claims
  <2>2. CASE id = c.of /\ UNCHANGED <<port, queue, strayed>>
    BY <1>4, <2>1, <2>2 DEF SetSession, workerVars
  <2>3. CASE id # c.of /\ port' = NoSender /\ strayed' = (worker = "asking") /\ Discover
    <3>1. QueueType'
      BY <1>1, <2>3, DiscoverKeepsQueue
    <3> QED
      BY <1>2, <1>4, <2>1, <2>3, <3>1 DEF SetSession, workerVars
  <2> QED
    BY <1>4, <2>2, <2>3 DEF SetSession
<1>5. CASE ClearSession
  BY <1>5, DacpAssumption DEF ClearSession, workerVars
<1>6. CASE SendCommand
  <2>1. QueueType'
    BY <1>1, <1>6, CommandKeepsQueue DEF SendCommand
  <2> QED
    BY <1>2, <1>6, <2>1 DEF SendCommand, session, workerVars
<1>7. CASE Press
  <2>1. QueueType'
    BY <1>1, <1>7, CommandKeepsQueue, DiscoverKeepsQueue DEF Press
  <2> QED
    BY <1>2, <1>7, <2>1 DEF Press, session, workerVars
<1>8. CASE TakeDiscover
  <2>1. QueueType'
    BY <1>1, <1>8, TailKeepsQueue DEF TakeDiscover
  <2> QED
    BY <1>2, <1>8, <2>1 DEF TakeDiscover, Goes, callerVars
<1>9. CASE TakeCommand
  <2>1. QueueType'
    BY <1>1, <1>9, TailKeepsQueue DEF TakeCommand
  <2> QED
    BY <1>2, <1>9, <2>1 DEF TakeCommand, Goes, Copy, callerVars
<1>10. CASE NothingToAsk
  BY <1>10 DEF NothingToAsk, Returns, Goes, callerVars
<1>11. CASE Query
  BY <1>11 DEF Query, Goes, callerVars
<1>12. CASE QueryFinds
  BY <1>12, DacpAssumption DEF QueryFinds, StorePort, Returns, Goes, callerVars
<1>13. CASE QueryFails
  BY <1>13, DacpAssumption DEF QueryFails, StorePort, Returns, Goes, callerVars
<1>14. CASE CopyAgain
  BY <1>14 DEF CopyAgain, Copy, Goes, callerVars
<1>15. CASE RequestAnswered
  BY <1>15 DEF RequestAnswered, Goes, callerVars
<1>16. CASE RequestFails
  BY <1>16, DacpAssumption DEF RequestFails, Goes, callerVars
<1>17. CASE RequestDone
  BY <1>17 DEF RequestDone, Goes, callerVars
<1>18. CASE Advertise
  BY <1>18 DEF Advertise, session
<1> QED
  BY <1>3, <1>4, <1>5, <1>6, <1>7, <1>8, <1>9, <1>10, <1>11, <1>12, <1>13, <1>14, <1>15, <1>16, <1>17, <1>18
     DEF DacpNext, WorkerStep

LEMMA DacpStutterInv == DacpInv /\ UNCHANGED dacpVars => DacpInv'
BY DEF DacpInv, DacpTypeOK, TokenOfAddress, AddressIsKnown, AsksForItself, OwnPort, dacpVars, session

(***************************************************************************)
(* What the DACP client keeps: the token belongs to the address, a port    *)
(* has one beside it, and a query is about the session it began in.        *)
(***************************************************************************)
THEOREM DacpInvariant == DacpSpec => []DacpInv
BY DacpInitInv, DacpStepInv, DacpStutterInv, PTL DEF DacpSpec

(***************************************************************************)
(* The token of a sender reaches no other host, and the queue stays within *)
(* its limit, for every number of senders and every length of the queue.   *)
(***************************************************************************)
THEOREM TokenAlwaysStaysHome == DacpSpec => []TokenStaysHome
<1>1. DacpInv => TokenStaysHome
  BY DEF DacpInv, TokenOfAddress, TokenStaysHome
<1> QED
  BY <1>1, DacpInvariant, PTL

(***************************************************************************)
(* A port that was not found across a change of session is that of the     *)
(* current one.                                                            *)
(***************************************************************************)
THEOREM PortAlwaysOwn == DacpSpec => []OwnPort
<1>1. DacpInv => OwnPort
  BY DEF DacpInv
<1> QED
  BY <1>1, DacpInvariant, PTL

-----------------------------------------------------------------------------
(***************************************************************************)
(* The PTP clock.  Between the calls, and unless the last reset was torn,  *)
(* everything in flight is of the master that was named: the message, the  *)
(* SYNC that waits, the sample and the filter.  No condition is set on the *)
(* clock when no master is named.                                          *)
(***************************************************************************)
HasSample == task \in {"judging", "storing", "smoothing", "locking"}
Settled == call \in {"none", "joining"} /\ ~torn

MessageIsKnown == AtWork => message.from \in Clocks /\ (~torn => expected \in {NoClock, message.from})
PairIsOfMaster == pair.awaiting => expected \in {NoClock, pair.of[1]}
SampleIsOfMaster == HasSample => expected \in {NoClock, sample[1]}
OffsetIsOfMaster == offset # Zero => expected \in {NoClock, offset[1]}

FilterIsOfMaster == Settled => PairIsOfMaster /\ SampleIsOfMaster /\ OffsetIsOfMaster

(***************************************************************************)
(* A sample is a measurement, a lock has one, and only a torn reset leaves *)
(* the smoothing of an offset that is gone.                                *)
(***************************************************************************)
SampleIsReal == HasSample => sample # Zero
LockHasOffset == locked => offset # Zero
SmoothsAnew == task = "smoothing" /\ first => torn

(***************************************************************************)
(* Nothing locks between the stores of one reset: the candidate was        *)
(* dropped in the first, and is not old enough before the last.            *)
(***************************************************************************)
NoLockInReset == call \in {"unlocked", "clearing", "cleared"} => ~locked /\ candidate # "long"

ClockInv ==
  /\ TypeOK
  /\ MessageIsKnown /\ FilterIsOfMaster
  /\ SampleIsReal /\ LockHasOffset /\ SmoothsAnew /\ NoLockInReset

LEMMA OffsetFacts ==
  /\ Zero \in Offsets /\ Mixed \in Offsets /\ Mixed # Zero
  /\ \A o \in Offsets : o[1] \in Clocks => o # Zero
BY ClockAssumption DEF Zero, Mixed, Offsets

LEMMA NowFacts ==
  ASSUME TypeOK, NEW c \in Clocks
  PROVE  Now(c) \in Offsets /\ Now(c)[1] = c /\ Now(c) # Zero
BY ClockAssumption DEF TypeOK, Now, Offsets, Zero

LEMMA ClockInitInv == Init => ClockInv
<1> SUFFICES ASSUME Init  PROVE ClockInv
  OBVIOUS
<1> USE DEF Init
<1>1. message \in [kind : Kinds, from : Clocks \cup {NoClock}, seq : Seqs]
  BY DEF NoMessage, Kinds, Seqs
<1>2. pair \in [seq : Seqs, awaiting : BOOLEAN, of : Offsets] /\ ~pair.awaiting
  BY OffsetFacts DEF NoPair, Seqs
<1>3. first \in BOOLEAN /\ running \in BOOLEAN /\ (running <=> task # "none" /\ call # "joining")
  OBVIOUS
<1>4. locked \in BOOLEAN /\ torn \in BOOLEAN /\ stepped \in BOOLEAN
  OBVIOUS
<1>5. TypeOK
  BY <1>1, <1>2, <1>3, <1>4, OffsetFacts, ClockAssumption DEF TypeOK
<1> QED
  BY <1>2, <1>5 DEF ClockInv, MessageIsKnown, AtWork, FilterIsOfMaster, PairIsOfMaster, SampleIsOfMaster,
     OffsetIsOfMaster, HasSample, SampleIsReal, LockHasOffset, SmoothsAnew, NoLockInReset

(***************************************************************************)
(* The task: each step of the handling keeps what it handles to one        *)
(* master.                                                                 *)
(***************************************************************************)
Kept == /\ MessageIsKnown /\ FilterIsOfMaster
        /\ SampleIsReal /\ LockHasOffset /\ SmoothsAnew /\ NoLockInReset

LEMMA ReceiveKeeps ==
  ASSUME ClockInv, NEW c \in Clocks, NEW kind \in Kinds, NEW seq \in Seqs, Receive(c, kind, seq)
  PROVE  ClockInv'
<1> USE DEF ClockInv, Receive, At, callerElse, lockVars, filterVars
<1>1. message' \in [kind : Kinds, from : Clocks \cup {NoClock}, seq : Seqs] /\ message'.from = c
  OBVIOUS
<1>2. TypeOK'
  BY <1>1 DEF TypeOK
<1>3. Kept'
  BY <1>1 DEF Kept, MessageIsKnown, AtWork, FilterIsOfMaster, Settled, PairIsOfMaster, SampleIsOfMaster,
     OffsetIsOfMaster, HasSample, SampleIsReal, LockHasOffset, SmoothsAnew, NoLockInReset
<1> QED
  BY <1>2, <1>3 DEF Kept

LEMMA HeardIsKnown ==
  ASSUME ClockInv, AtWork, Heard
  PROVE  /\ pair' \in [seq : Seqs, awaiting : BOOLEAN, of : Offsets]
         /\ ~torn => expected \in {NoClock, pair'.of[1]}
<1>1. message.from \in Clocks /\ message.seq \in Seqs
  BY DEF ClockInv, MessageIsKnown, TypeOK
<1> QED
  BY <1>1, NowFacts DEF ClockInv, Heard, MessageIsKnown

LEMMA DoneIsTyped ==
  ASSUME MessageDone
  PROVE  message' \in [kind : Kinds, from : Clocks \cup {NoClock}, seq : Seqs] /\ sample' \in Offsets
BY OffsetFacts DEF MessageDone, NoMessage, Kinds, Seqs

LEMMA HandleSyncKeeps ==
  ASSUME ClockInv, HandleSync
  PROVE  ClockInv'
<1> USE DEF ClockInv, HandleSync, At, callerElse, lockVars, filterVars
<1>1. AtWork
  BY DEF AtWork
<1>2. TypeOK'
  BY <1>1, HeardIsKnown, DoneIsTyped DEF TypeOK
<1>3. Kept'
  BY <1>1, HeardIsKnown DEF Kept, MessageIsKnown, AtWork, FilterIsOfMaster, Settled, PairIsOfMaster,
     SampleIsOfMaster, OffsetIsOfMaster, HasSample, SampleIsReal, LockHasOffset, SmoothsAnew, NoLockInReset
<1> QED
  BY <1>2, <1>3 DEF Kept

LEMMA HandleOneStepKeeps ==
  ASSUME ClockInv, HandleOneStep
  PROVE  ClockInv'
<1> USE DEF ClockInv, HandleOneStep, At, callerElse, lockVars, filterVars
<1>1. AtWork /\ AtWork'
  BY DEF AtWork
<1>2. message.from \in Clocks /\ (~torn => expected \in {NoClock, message.from})
  BY <1>1 DEF MessageIsKnown
<1>3. sample' \in Offsets /\ sample' # Zero /\ sample'[1] = message.from
  BY <1>2, NowFacts
<1>4. TypeOK'
  BY <1>1, <1>3, HeardIsKnown DEF TypeOK
<1>5. Kept'
  BY <1>1, <1>2, <1>3, HeardIsKnown DEF Kept, MessageIsKnown, FilterIsOfMaster, Settled, PairIsOfMaster,
     SampleIsOfMaster, OffsetIsOfMaster, HasSample, SampleIsReal, LockHasOffset, SmoothsAnew, NoLockInReset
<1> QED
  BY <1>4, <1>5 DEF Kept

LEMMA HandleFollowUpKeeps ==
  ASSUME ClockInv, HandleFollowUp
  PROVE  ClockInv'
<1> USE DEF ClockInv, HandleFollowUp, At, callerElse, lockVars, filterVars
<1>1. AtWork /\ AtWork'
  BY DEF AtWork
<1>2. message.from \in Clocks /\ (~torn => expected \in {NoClock, message.from})
  BY <1>1 DEF MessageIsKnown
<1>3. pair.awaiting /\ pair.of \in Offsets
  BY DEF Belongs, TypeOK
<1>4. sample' \in Offsets /\ sample' # Zero
  BY <1>2, <1>3, OffsetFacts
<1>5. Settled => expected \in {NoClock, sample'[1]}
  BY <1>2, <1>3, ClockAssumption DEF FilterIsOfMaster, Settled, PairIsOfMaster
<1>6. pair' \in [seq : Seqs, awaiting : BOOLEAN, of : Offsets] /\ ~pair'.awaiting
  BY OffsetFacts DEF NoPair, Seqs
<1>7. TypeOK'
  BY <1>1, <1>4, <1>6 DEF TypeOK
<1>8. Kept'
  BY <1>1, <1>2, <1>4, <1>5, <1>6 DEF Kept, MessageIsKnown, FilterIsOfMaster, Settled, PairIsOfMaster,
     SampleIsOfMaster, OffsetIsOfMaster, HasSample, SampleIsReal, LockHasOffset, SmoothsAnew, NoLockInReset
<1> QED
  BY <1>7, <1>8 DEF Kept

LEMMA DropFollowUpKeeps ==
  ASSUME ClockInv, DropFollowUp
  PROVE  ClockInv'
<1> USE DEF ClockInv, DropFollowUp, At, callerElse, lockVars, filterVars
<1>1. TypeOK'
  BY DoneIsTyped DEF TypeOK
<1>2. Kept'
  BY DEF Kept, MessageIsKnown, AtWork, FilterIsOfMaster, Settled, PairIsOfMaster,
     SampleIsOfMaster, OffsetIsOfMaster, HasSample, SampleIsReal, LockHasOffset, SmoothsAnew, NoLockInReset
<1> QED
  BY <1>1, <1>2 DEF Kept

(***************************************************************************)
(* The filter: the pair that a sample leaves behind is the one it found,   *)
(* or none.                                                                *)
(***************************************************************************)
LEMMA SampleDoneKeepsPair ==
  ASSUME TypeOK, SampleDone
  PROVE  /\ pair' \in [seq : Seqs, awaiting : BOOLEAN, of : Offsets]
         /\ pair' = pair \/ ~pair'.awaiting
BY OffsetFacts DEF TypeOK, SampleDone, NoPair, Seqs

LEMMA CountIsTyped ==
  ASSUME TypeOK, Count
  PROVE  samples' \in 0..MinSamples /\ sync' = "recent"
BY ClockAssumption DEF TypeOK, Count

LEMMA RejectOutlierKeeps ==
  ASSUME ClockInv, RejectOutlier
  PROVE  ClockInv'
<1> USE DEF ClockInv, RejectOutlier, At, callerElse, lockVars
<1>1. TypeOK'
  BY SampleDoneKeepsPair, CountIsTyped, DoneIsTyped DEF TypeOK, SampleDone
<1>2. Kept'
  BY SampleDoneKeepsPair DEF Kept, MessageIsKnown, AtWork, FilterIsOfMaster, Settled, PairIsOfMaster,
     SampleIsOfMaster, OffsetIsOfMaster, HasSample, SampleIsReal, LockHasOffset, SmoothsAnew, NoLockInReset
<1> QED
  BY <1>1, <1>2 DEF Kept

LEMMA AcceptSampleKeeps ==
  ASSUME ClockInv, AcceptSample
  PROVE  ClockInv'
<1> USE DEF ClockInv, AcceptSample, At, callerElse, lockVars
<1>1. TypeOK'
  BY CountIsTyped DEF TypeOK
<1>2. Kept'
  BY DEF Kept, MessageIsKnown, AtWork, FilterIsOfMaster, Settled, PairIsOfMaster,
     SampleIsOfMaster, OffsetIsOfMaster, HasSample, SampleIsReal, LockHasOffset, SmoothsAnew, NoLockInReset
<1> QED
  BY <1>1, <1>2 DEF Kept

LEMMA StoreOffsetKeeps ==
  ASSUME ClockInv, StoreOffset
  PROVE  ClockInv'
<1> USE DEF ClockInv, StoreOffset, At, callerElse, lockVars
<1>1. HasSample /\ sample # Zero
  BY DEF HasSample, SampleIsReal
<1>2. offset' # Zero /\ offset' \in Offsets
  BY <1>1, OffsetFacts DEF TypeOK
<1>3. ~torn => offset' = sample
  BY DEF SmoothsAnew
<1>4. first' \in BOOLEAN
  OBVIOUS
<1>5. TypeOK'
  BY <1>2, <1>4 DEF TypeOK
<1>6. Kept'
  BY <1>1, <1>2, <1>3 DEF Kept, MessageIsKnown, AtWork, FilterIsOfMaster, Settled, PairIsOfMaster,
     SampleIsOfMaster, OffsetIsOfMaster, HasSample, SampleIsReal, LockHasOffset, SmoothsAnew, NoLockInReset
<1> QED
  BY <1>5, <1>6 DEF Kept

LEMMA JudgeLockKeeps ==
  ASSUME ClockInv, JudgeLock
  PROVE  ClockInv'
<1> USE DEF ClockInv, JudgeLock, At, callerElse
<1>1. sample # Zero
  BY DEF HasSample, SampleIsReal
<1>2. locked' \in BOOLEAN
  BY DEF TypeOK, Stable, Unstable, Undecided, lockVars
<1>3. candidate' \in {"none", "recent", "long"}
  BY DEF TypeOK, Stable, Unstable, Undecided, lockVars
<1>4. locked' => offset # Zero
  BY <1>1 DEF Stable, Unstable, Undecided, lockVars, LockHasOffset
<1>5. candidate # "long" /\ ~locked => candidate' # "long" /\ ~locked'
  BY DEF Stable, Unstable, Undecided, lockVars
<1>6. TypeOK'
  BY <1>2, <1>3, SampleDoneKeepsPair, DoneIsTyped DEF TypeOK, SampleDone, filterVars
<1>7. Kept'
  BY <1>4, <1>5, SampleDoneKeepsPair DEF Kept, MessageIsKnown, AtWork, FilterIsOfMaster, Settled, PairIsOfMaster,
     SampleIsOfMaster, OffsetIsOfMaster, HasSample, SampleIsReal, LockHasOffset, SmoothsAnew, NoLockInReset, filterVars
<1> QED
  BY <1>6, <1>7 DEF Kept

LEMMA TaskEndsKeeps ==
  ASSUME ClockInv, TaskEnds
  PROVE  ClockInv'
<1> USE DEF ClockInv, TaskEnds, At, callerElse, lockVars, filterVars
<1>1. TypeOK'
  BY DEF TypeOK
<1>2. Kept'
  BY DEF Kept, MessageIsKnown, AtWork, FilterIsOfMaster, Settled, PairIsOfMaster,
     SampleIsOfMaster, OffsetIsOfMaster, HasSample, SampleIsReal, LockHasOffset, SmoothsAnew, NoLockInReset
<1> QED
  BY <1>1, <1>2 DEF Kept

(***************************************************************************)
(* The calls: a reset that ends with the task at rest leaves nothing of    *)
(* the former master, and one that meets it at work is torn.               *)
(***************************************************************************)
LEMMA EmptyIsTyped ==
  ASSUME pair' = NoPair
  PROVE  pair' \in [seq : Seqs, awaiting : BOOLEAN, of : Offsets] /\ ~pair'.awaiting
BY OffsetFacts DEF NoPair, Seqs

LEMMA WorkIsBoolean == AtWork \in BOOLEAN /\ (TypeOK /\ HasSample => AtWork)
BY DEF AtWork, HasSample

LEMMA InitClockKeeps ==
  ASSUME ClockInv, InitClock
  PROVE  ClockInv'
<1> USE DEF ClockInv, InitClock, Call
<1>1. task = "none" /\ task' \in {"none", "waiting"}
  BY DEF TypeOK
<1>2. expected' = NoClock /\ ~locked' /\ candidate' = "none" /\ sync' = "none" /\ offset' = Zero /\ samples' = 0
      /\ first' = TRUE /\ pair' = NoPair
  BY DEF Forgotten
<1>3. running' \in BOOLEAN /\ (running' <=> task' # "none")
  <2>1. CASE running' = TRUE /\ task' = "waiting"
    BY <2>1
  <2>2. CASE UNCHANGED <<running, task>>
    <3>1. running' = running /\ running \in BOOLEAN /\ ~running
      BY <2>2 DEF TypeOK
    <3> HIDE DEF InitClock, ClockInv
    <3>2. running' \in BOOLEAN /\ ~running'
      BY <3>1
    <3>3. task' = "none"
      BY <1>1, <2>2
    <3> QED
      BY <3>2, <3>3
  <2> QED
    BY <2>1, <2>2
<1>4. locked' \in BOOLEAN /\ first' \in BOOLEAN /\ torn' \in BOOLEAN /\ stepped' \in BOOLEAN
  BY DEF Forgotten
<1>5. TypeOK'
  BY <1>1, <1>2, <1>3, <1>4, EmptyIsTyped, OffsetFacts, ClockAssumption DEF TypeOK
<1>6. Kept'
  BY <1>1, <1>2, EmptyIsTyped DEF Kept, MessageIsKnown, AtWork, FilterIsOfMaster, Settled, PairIsOfMaster,
     SampleIsOfMaster, OffsetIsOfMaster, HasSample, SampleIsReal, LockHasOffset, SmoothsAnew, NoLockInReset
<1> QED
  BY <1>5, <1>6 DEF Kept

LEMMA StopClockKeeps ==
  ASSUME ClockInv, StopClock
  PROVE  ClockInv'
<1> USE DEF ClockInv, StopClock, Call, taskVars, lockVars, filterVars
<1>1. running' \in BOOLEAN /\ ~running'
  OBVIOUS
<1>2. TypeOK'
  BY <1>1 DEF TypeOK
<1>3. Kept'
  BY DEF Kept, MessageIsKnown, AtWork, FilterIsOfMaster, Settled, PairIsOfMaster,
     SampleIsOfMaster, OffsetIsOfMaster, HasSample, SampleIsReal, LockHasOffset, SmoothsAnew, NoLockInReset
<1> QED
  BY <1>2, <1>3 DEF Kept

LEMMA JoinedKeeps ==
  ASSUME ClockInv, Joined
  PROVE  ClockInv'
<1> USE DEF ClockInv, Joined, Call, taskVars, lockVars, filterVars
<1>1. TypeOK'
  BY DEF TypeOK
<1>2. Kept'
  BY DEF Kept, MessageIsKnown, AtWork, FilterIsOfMaster, Settled, PairIsOfMaster,
     SampleIsOfMaster, OffsetIsOfMaster, HasSample, SampleIsReal, LockHasOffset, SmoothsAnew, NoLockInReset
<1> QED
  BY <1>1, <1>2 DEF Kept

LEMMA SetMasterKeeps ==
  ASSUME ClockInv, NEW c \in Clocks, SetMaster(c)
  PROVE  ClockInv'
<1> USE DEF ClockInv, SetMaster, Call, taskVars, lockVars, filterVars
<1>1. torn' \in BOOLEAN
  BY WorkIsBoolean
<1>2. TypeOK'
  BY <1>1 DEF TypeOK
<1>3. Kept'
  BY DEF Kept, MessageIsKnown, AtWork, FilterIsOfMaster, Settled, HasSample, SampleIsReal, LockHasOffset,
     SmoothsAnew, NoLockInReset
<1> QED
  BY <1>2, <1>3 DEF Kept

LEMMA DropLockKeeps ==
  ASSUME ClockInv, DropLock
  PROVE  ClockInv'
<1> USE DEF ClockInv, DropLock, Call, taskVars, filterVars
<1>1. torn' \in BOOLEAN
  BY WorkIsBoolean
<1>2. TypeOK'
  BY <1>1 DEF TypeOK
<1>3. Kept'
  BY DEF Kept, MessageIsKnown, AtWork, FilterIsOfMaster, Settled, HasSample, SampleIsReal, LockHasOffset,
     SmoothsAnew, NoLockInReset
<1> QED
  BY <1>2, <1>3 DEF Kept

LEMMA DropFilterKeeps ==
  ASSUME ClockInv, DropFilter
  PROVE  ClockInv'
<1> USE DEF ClockInv, DropFilter, Call, taskVars, lockVars
<1>1. torn' \in BOOLEAN /\ first' \in BOOLEAN /\ stepped' \in BOOLEAN
  BY WorkIsBoolean
<1>2. TypeOK'
  BY <1>1, EmptyIsTyped, OffsetFacts, ClockAssumption DEF TypeOK
<1>3. Kept'
  BY EmptyIsTyped DEF Kept, MessageIsKnown, AtWork, FilterIsOfMaster, Settled, PairIsOfMaster,
     SampleIsOfMaster, OffsetIsOfMaster, HasSample, SampleIsReal, LockHasOffset, SmoothsAnew, NoLockInReset
<1> QED
  BY <1>2, <1>3 DEF Kept

LEMMA ClearLockKeeps ==
  ASSUME ClockInv, ClearLock
  PROVE  ClockInv'
<1> USE DEF ClockInv, ClearLock, Call, taskVars, filterVars
<1>1. torn' \in BOOLEAN
  BY WorkIsBoolean
<1>2. TypeOK'
  BY <1>1 DEF TypeOK
<1>3. Kept'
  BY DEF Kept, MessageIsKnown, AtWork, FilterIsOfMaster, Settled, HasSample, SampleIsReal, LockHasOffset,
     SmoothsAnew, NoLockInReset
<1> QED
  BY <1>2, <1>3 DEF Kept

LEMMA ClearFilterKeeps ==
  ASSUME ClockInv, ClearFilter
  PROVE  ClockInv'
<1> USE DEF ClockInv, ClearFilter, Call, taskVars, lockVars
<1>1. torn' \in BOOLEAN /\ first' \in BOOLEAN /\ stepped' \in BOOLEAN
  BY WorkIsBoolean
<1>2. TypeOK'
  BY <1>1, OffsetFacts, ClockAssumption DEF TypeOK
<1>3. Kept'
  BY DEF Kept, MessageIsKnown, AtWork, FilterIsOfMaster, Settled, HasSample, SampleIsReal, LockHasOffset,
     SmoothsAnew, NoLockInReset
<1> QED
  BY <1>2, <1>3 DEF Kept

LEMMA ClearMasterKeeps ==
  ASSUME ClockInv, ClearMaster
  PROVE  ClockInv'
<1> USE DEF ClockInv, ClearMaster, Call, taskVars, lockVars, filterVars
<1>1. torn' \in BOOLEAN
  BY WorkIsBoolean
<1>2. TypeOK'
  BY <1>1, EmptyIsTyped DEF TypeOK
<1>3. Kept'
  BY EmptyIsTyped DEF Kept, MessageIsKnown, AtWork, FilterIsOfMaster, Settled, PairIsOfMaster,
     SampleIsOfMaster, OffsetIsOfMaster, HasSample, SampleIsReal, LockHasOffset, SmoothsAnew, NoLockInReset
<1> QED
  BY <1>2, <1>3 DEF Kept

(***************************************************************************)
(* Time: a candidate grows old only outside the resets.                    *)
(***************************************************************************)
LEMMA TimeKeeps ==
  ASSUME ClockInv, CheckLock \/ StableTime \/ LongSilence \/ ClockSteps
  PROVE  ClockInv'
<1> USE DEF ClockInv, CheckLock, StableTime, LongSilence, ClockSteps, timeElse, taskVars, lockVars, filterVars
<1>1. stepped' \in BOOLEAN /\ locked' \in BOOLEAN
  BY DEF TypeOK
<1>2. base' \in 0..MaxSteps
  BY ClockAssumption DEF TypeOK
<1>3. TypeOK'
  BY <1>1, <1>2 DEF TypeOK
<1>4. Kept'
  BY DEF Kept, InCall, MessageIsKnown, AtWork, FilterIsOfMaster, Settled, PairIsOfMaster,
     SampleIsOfMaster, OffsetIsOfMaster, HasSample, SampleIsReal, LockHasOffset, SmoothsAnew, NoLockInReset
<1> QED
  BY <1>3, <1>4 DEF Kept

LEMMA ClockStepInv == ClockInv /\ [Next]_vars => ClockInv'
<1>1. ClockInv /\ UNCHANGED vars => ClockInv'
  BY DEF ClockInv, TypeOK, MessageIsKnown, AtWork, FilterIsOfMaster, Settled, PairIsOfMaster, SampleIsOfMaster,
     OffsetIsOfMaster, HasSample, SampleIsReal, LockHasOffset, SmoothsAnew, NoLockInReset, vars, taskVars, lockVars,
     filterVars
<1>2. ClockInv /\ Next => ClockInv'
  BY ReceiveKeeps, HandleSyncKeeps, HandleOneStepKeeps, HandleFollowUpKeeps, DropFollowUpKeeps, RejectOutlierKeeps,
     AcceptSampleKeeps, StoreOffsetKeeps, JudgeLockKeeps, TaskEndsKeeps, InitClockKeeps, StopClockKeeps, JoinedKeeps,
     SetMasterKeeps, DropLockKeeps, DropFilterKeeps, ClearLockKeeps, ClearFilterKeeps, ClearMasterKeeps, TimeKeeps
     DEF Next, Handle, Return
<1> QED
  BY <1>1, <1>2

(***************************************************************************)
(* What the clock keeps without a lock between its task and the calls.     *)
(***************************************************************************)
THEOREM ClockInvariant == Spec => []ClockInv
BY ClockInitInv, ClockStepInv, PTL DEF Spec

(***************************************************************************)
(* A lock is a lock on the master that was named, for every number of      *)
(* clocks and of samples.                                                  *)
(***************************************************************************)
THEOREM LockAlwaysOnMaster == Spec => []LockIsOnMaster
<1>1. ClockInv => LockIsOnMaster
  BY DEF ClockInv, LockHasOffset, FilterIsOfMaster, Settled, OffsetIsOfMaster, LockIsOnMaster
<1> QED
  BY <1>1, ClockInvariant, PTL
=============================================================================

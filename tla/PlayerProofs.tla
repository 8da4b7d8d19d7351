---------------------------- MODULE PlayerProofs ------------------------------
(***************************************************************************)
(* Proofs about Player for every queue, and every number of responses,     *)
(* blocks and interruptions.  A flushed response has one block left at     *)
(* most, because the flush empties the queue and takes the block from the  *)
(* player, and because the gate is open only for a response that no        *)
(* interruption has closed: what is left is the block the decoder had      *)
(* checked.  The invariant follows that block from the decoder to aplay.   *)
(***************************************************************************)
EXTENDS Player, TLAPS

\* The gate is open for a response later than every interrupted one.
GateFresh == accepting => steering = "free" /\ cut < resp

\* A player that has a block to write has it from a response, and writes to a
\* process.
BlockHeld ==
  /\ player \in {"spawning", "writing"} => block \in Response
  /\ player = "writing" => process

\* The conjuncts of PlayerTypeOK about flags.
Flags ==
  /\ cancelled \in BOOLEAN /\ accepting \in BOOLEAN /\ clear \in BOOLEAN
  /\ process \in BOOLEAN

Queued(r) == \E i \in 1 .. Len(queue) : queue[i] = r

\* A block of r is late when r has been flushed; it is in one place.
OnePlace(r) ==
  /\ late[r] = 1 => checked # r /\ block # r /\ ~Queued(r)
  /\ block = r => checked # r /\ ~Queued(r)
  /\ Queued(r) => checked # r
  /\ \A i, j \in 1 .. Len(queue) : queue[i] = r /\ queue[j] = r => i = j

LateBlocks ==
  \A r \in Response :
    /\ r > cleared => late[r] = 0
    /\ r <= cleared => late[r] <= 1 /\ OnePlace(r)

IInv == PlayerTypeOK /\ GateFresh /\ BlockHeld /\ LateBlocks

--------------------------------------------------------------------------------
\* What TakeAudio and DrainBlock leave in the queue.
LEMMA TailOfQueue ==
  ASSUME NEW q \in Seq(Response), q # <<>>
  PROVE  /\ Head(q) = q[1] /\ Head(q) \in Response
         /\ Tail(q) \in Seq(Response) /\ Len(Tail(q)) = Len(q) - 1
         /\ Len(q) \in Nat /\ Len(q) >= 1
         /\ \A i \in 1 .. Len(Tail(q)) : Tail(q)[i] = q[i + 1]
OBVIOUS

\* What SendAudio makes of it.
LEMMA AppendToQueue ==
  ASSUME NEW q \in Seq(Response), NEW b \in Response
  PROVE  /\ Append(q, b) \in Seq(Response) /\ Len(Append(q, b)) = Len(q) + 1
         /\ Len(q) \in Nat
         /\ Append(q, b)[Len(q) + 1] = b
         /\ \A i \in 1 .. Len(q) : Append(q, b)[i] = q[i]
OBVIOUS

\* The flushed queue is a queue.
LEMMA EmptyQueue == <<>> \in Seq(Response) /\ Len(<<>>) = 0 /\ Len(<<>>) <= Capacity
BY BoundAssumption

\* The invariant holds initially.
LEMMA Start == Init => IInv
<1> SUFFICES ASSUME Init PROVE IInv
  OBVIOUS
<1>1. PlayerTypeOK
  <2>2. late \in [Response -> Nat] /\ 0 \in 0 .. MaxInterrupts /\ 0 \in 0 .. MaxBlocks
    BY BoundAssumption DEF Init
  <2>3. queue \in Seq(Response) /\ Len(queue) <= Capacity
    BY EmptyQueue DEF Init
  <2>4. cut \in 0 .. resp /\ cleared \in 0 .. cut
    BY DEF Init, None
  <2> QED
    BY <2>2, <2>3, <2>4 DEF Init, PlayerTypeOK, PlayerState
<1>2. GateFresh /\ BlockHeld
  BY DEF Init, GateFresh, BlockHeld
<1>3. LateBlocks
  BY DEF Init, LateBlocks, OnePlace, Queued, Response, None
<1> QED
  BY <1>1, <1>2, <1>3 DEF IInv

--------------------------------------------------------------------------------
\* The calls of the event loop keep the types.
LEMMA SteerTypes ==
  ASSUME PlayerTypeOK, Steer \/ CancelSession
  PROVE  PlayerTypeOK'
<1> USE DEF PlayerTypeOK, PlayerState, loopVars, decoderVars, playerVars, Steers
<1>1. CASE InterruptCloses
  <2>1. interrupts' \in 0 .. MaxInterrupts
    BY <1>1, BoundAssumption DEF InterruptCloses
  <2> QED
    BY <1>1, <2>1 DEF InterruptCloses, CloseGate
<1>2. CASE InterruptClears
  <2>1. cut' \in 0 .. resp /\ cleared \in 0 .. cut'
    BY <1>2, BoundAssumption DEF InterruptClears, Response, None
  <2> QED
    BY <1>2, <2>1 DEF InterruptClears
<1>3. CASE BeginResponse
  <2>1. resp' \in Response /\ cut \in 0 .. resp'
    BY <1>3, BoundAssumption DEF BeginResponse, Response, None
  <2> QED
    BY <1>3, <2>1 DEF BeginResponse
<1>4. CASE Shutdown
  BY <1>4 DEF Shutdown
<1>5. CASE Finish
  BY <1>5 DEF Finish
<1>6. CASE Abort
  BY <1>6, EmptyQueue DEF Abort
<1>7. CASE CancelSession
  BY <1>7 DEF CancelSession
<1> QED
  BY <1>1, <1>2, <1>3, <1>4, <1>5, <1>6, <1>7 DEF Steer

\* The decoder keeps the types.
LEMMA DecoderTypes ==
  ASSUME PlayerTypeOK, CheckAudio \/ SendAudio
  PROVE  PlayerTypeOK'
<1>1. CASE CheckAudio
  BY <1>1, BoundAssumption DEF CheckAudio, PlayerTypeOK, loopVars, playerVars, Response, None
<1>2. CASE SendAudio
  <2>1. CASE Full \/ Closed
    BY <1>2, <2>1 DEF SendAudio, PlayerTypeOK, loopVars, playerVars
  <2>2. CASE ~(Full \/ Closed)
    <3>0. /\ queue' = Append(queue, checked) /\ Len(queue) # Capacity /\ checked # None
          /\ checked \in Response \cup {None} /\ queue \in Seq(Response) /\ Len(queue) <= Capacity
      BY <1>2, <2>2, Zenon DEF SendAudio, Full, PlayerTypeOK
    <3>1. queue' \in Seq(Response) /\ Len(queue') <= Capacity
      BY <3>0, AppendToQueue, BoundAssumption
    <3>2. checked' = None /\ UNCHANGED <<loopVars, cancelled, decoder, blocks, playerVars>>
      BY <1>2, <2>2, Zenon DEF SendAudio
    <3>3. Flags'
      BY <3>2, Zenon DEF Flags, PlayerTypeOK, loopVars, playerVars
    <3> QED
      BY <3>1, <3>2, <3>3 DEF Flags, PlayerTypeOK, loopVars, playerVars
  <2> QED
    BY <2>1, <2>2
<1> QED
  BY <1>1, <1>2

\* run_player keeps the types.
LEMMA PlayerTypes ==
  ASSUME PlayerTypeOK, BlockHeld, PlayerStep
  PROVE  PlayerTypeOK'
<1> USE DEF PlayerTypeOK, PlayerState, loopVars, decoderVars
<1>0. ASSUME queue # <<>>, queue' = Tail(queue)
      PROVE  queue' \in Seq(Response) /\ Len(queue') <= Capacity /\ Head(queue) \in Response
  BY <1>0, TailOfQueue, BoundAssumption
<1>p. ASSUME NEW r \in Response, Plays(r), process'
      PROVE  late' \in [Response -> Nat]
  BY <1>p DEF Plays
<1>1. CASE SeeClear
  <2>1. cleared' \in 0 .. cut'
    BY <1>1 DEF SeeClear, Response, None
  <2> QED
    BY <1>1, <2>1, EmptyQueue DEF SeeClear
<1>2. CASE Flushed
  BY <1>2 DEF Flushed
<1>3. CASE SeeControl
  BY <1>3 DEF SeeControl
<1>4. CASE TakeAudio
  BY <1>4, <1>0 DEF TakeAudio
<1>5. CASE SpawnAplay
  <2>1. /\ player' \in PlayerState /\ process' \in BOOLEAN /\ (process => process')
        /\ block' \in Response \cup {None}
    BY <1>5 DEF SpawnAplay
  <2>2. UNCHANGED <<loopVars, cancelled, decoderVars, queue, late, cleared>>
    BY <1>5 DEF SpawnAplay
  <2> QED
    BY <2>1, <2>2
<1>6. CASE WriteDone
  BY <1>6, <1>p DEF WriteDone, BlockHeld
<1>7. CASE WriteFails
  BY <1>7, EmptyQueue DEF WriteFails
<1>8. CASE DrainBlock
  <2>1. CASE process
    BY <1>8, <2>1, <1>0, <1>p DEF DrainBlock
  <2>2. CASE ~process
    BY <1>8, <2>2, <1>0 DEF DrainBlock
  <2> QED
    BY <2>1, <2>2
<1>9. CASE Drained
  <2>1. player' = "closing"
        /\ UNCHANGED <<loopVars, cancelled, decoderVars, queue, block, process, late, cleared>>
    BY <1>9, Zenon DEF Drained
  <2>2. Flags'
    BY <2>1, Zenon DEF Flags
  <2> QED
    BY <2>1, <2>2 DEF Flags
<1>10. CASE CloseAplay
  <2>1. /\ process' = FALSE /\ queue' = <<>>
        /\ UNCHANGED <<loopVars, cancelled, decoderVars, block, late, cleared>>
    BY <1>10, Zenon DEF CloseAplay
  <2>2. player' \in PlayerState
    BY <1>10 DEF CloseAplay
  <2>3. Flags'
    BY <2>1, Zenon DEF Flags
  <2> QED
    BY <2>1, <2>2, <2>3, EmptyQueue DEF Flags
<1> QED
  BY <1>1, <1>2, <1>3, <1>4, <1>5, <1>6, <1>7, <1>8, <1>9, <1>10 DEF PlayerStep

--------------------------------------------------------------------------------
\* The gate reopens only for a new response, and closes before an interruption
\* counts.
LEMMA GateStaysFresh ==
  ASSUME PlayerTypeOK, GateFresh, Next
  PROVE  GateFresh'
<1> USE DEF GateFresh, PlayerTypeOK
<1>1. CASE InterruptCloses
  BY <1>1 DEF InterruptCloses, CloseGate
<1>2. CASE InterruptClears
  BY <1>2 DEF InterruptClears
<1>3. CASE BeginResponse
  <2>1. cut < resp + 1
    BY DEF Response, None
  <2> QED
    BY <1>3, <2>1 DEF BeginResponse, Steers
<1>4. CASE Shutdown \/ Finish \/ Abort \/ CancelSession
  BY <1>4 DEF Shutdown, Finish, Abort, CancelSession, loopVars
<1>5. CASE CheckAudio \/ SendAudio
  BY <1>5 DEF CheckAudio, SendAudio, loopVars
<1>6. CASE PlayerStep
  BY <1>6 DEF PlayerStep, SeeClear, Flushed, SeeControl, TakeAudio, SpawnAplay, WriteDone,
              WriteFails, DrainBlock, Drained, CloseAplay, loopVars
<1> QED
  BY <1>1, <1>2, <1>3, <1>4, <1>5, <1>6 DEF Next, Steer

\* run_player holds a block, and aplay, where it needs them.
LEMMA BlockStaysHeld ==
  ASSUME PlayerTypeOK, BlockHeld, Next
  PROVE  BlockHeld'
<1> USE DEF BlockHeld
<1>1. CASE Steer
  BY <1>1 DEF Steer, InterruptCloses, InterruptClears, BeginResponse, Shutdown, Finish, Abort,
              playerVars
<1>2. CASE CancelSession \/ CheckAudio \/ SendAudio
  BY <1>2 DEF CancelSession, CheckAudio, SendAudio, playerVars
<1>3. CASE SeeClear \/ Flushed \/ SeeControl
  BY <1>3 DEF SeeClear, Flushed, SeeControl
<1>4. CASE TakeAudio
  BY <1>4, TailOfQueue DEF TakeAudio, PlayerTypeOK
<1>5. CASE SpawnAplay
  BY <1>5 DEF SpawnAplay
<1>6. CASE WriteDone \/ WriteFails \/ DrainBlock \/ Drained \/ CloseAplay
  BY <1>6 DEF WriteDone, WriteFails, DrainBlock, Drained, CloseAplay
<1> QED
  BY <1>1, <1>2, <1>3, <1>4, <1>5, <1>6 DEF Next, PlayerStep

--------------------------------------------------------------------------------
\* LateBlocks holds on in a step that flushes nothing, if whatever is then late,
\* held, queued or checked was on its way before.
LEMMA NothingNew ==
  ASSUME LateBlocks, UNCHANGED <<cleared, late>>,
         \A r \in Response : r <= cleared => (OnePlace(r) => OnePlace(r)')
  PROVE  LateBlocks'
BY DEF LateBlocks

\* The decoder checks a block only while the gate is open.
LEMMA CheckLate ==
  ASSUME PlayerTypeOK, GateFresh, LateBlocks, CheckAudio
  PROVE  LateBlocks'
<1>1. ASSUME NEW r \in Response, r <= cleared, OnePlace(r)
      PROVE  OnePlace(r)'
  <2>1. UNCHANGED <<late, block, queue>>
    BY DEF CheckAudio, playerVars
  <2>2. checked' # r
    <3>1. CASE control # "Running"
      BY <3>1 DEF CheckAudio, None, Response
    <3>2. CASE control = "Running"
      <4>1. cut < resp /\ checked' = resp
        BY <3>2 DEF CheckAudio, GateFresh
      <4> QED
        BY <1>1, <4>1 DEF PlayerTypeOK, Response, None
    <3> QED
      BY <3>1, <3>2
  <2> QED
    BY <1>1, <2>1, <2>2 DEF OnePlace, Queued
<1> QED
  BY <1>1, NothingNew DEF CheckAudio, playerVars

\* The block moves from the decoder to the queue.
LEMMA SendLate ==
  ASSUME PlayerTypeOK, LateBlocks, SendAudio
  PROVE  LateBlocks'
<1>0. UNCHANGED <<late, block, cleared>> /\ checked \in Response /\ checked' = None
        /\ queue \in Seq(Response)
  BY DEF SendAudio, playerVars, PlayerTypeOK
<1>1. ASSUME NEW r \in Response, r <= cleared, OnePlace(r)
      PROVE  OnePlace(r)'
  <2>0. checked' # r
    BY <1>0 DEF Response, None
  <2>1. CASE queue' = queue
    BY <1>0, <1>1, <2>0, <2>1 DEF OnePlace, Queued
  <2>2. CASE queue' = Append(queue, checked)
    <3>1. \A i \in 1 .. Len(queue') :
            \/ i \in 1 .. Len(queue) /\ queue'[i] = queue[i]
            \/ i = Len(queue) + 1 /\ queue'[i] = checked
      BY <1>0, <2>2, AppendToQueue
    <3>2. CASE checked = r
      <4>1. ~Queued(r) /\ late[r] # 1 /\ block # r
        BY <1>1, <3>2 DEF OnePlace
      <4>2. \A i \in 1 .. Len(queue') : queue'[i] = r => i = Len(queue) + 1
        BY <3>1, <4>1 DEF Queued
      <4> QED
        BY <1>0, <2>0, <4>1, <4>2 DEF OnePlace
    <3>3. CASE checked # r
      <4>1. \A i \in 1 .. Len(queue') : queue'[i] = r => i \in 1 .. Len(queue) /\ queue[i] = r
        BY <3>1, <3>3
      <4>2. Queued(r)' => Queued(r)
        BY <4>1 DEF Queued
      <4> QED
        BY <1>0, <1>1, <2>0, <4>1, <4>2 DEF OnePlace
    <3> QED
      BY <3>2, <3>3
  <2> QED
    BY <2>1, <2>2 DEF SendAudio
<1> QED
  BY <1>0, <1>1, NothingNew

\* What the player takes from the head of the queue is in the queue no more.
LEMMA HeadLeaves ==
  ASSUME queue \in Seq(Response), queue # <<>>, queue' = Tail(queue), NEW r \in Response,
         \A i, j \in 1 .. Len(queue) : queue[i] = r /\ queue[j] = r => i = j
  PROVE  /\ Head(queue) = r => Queued(r) /\ ~Queued(r)'
         /\ Queued(r)' => Queued(r)
         /\ (\A i, j \in 1 .. Len(queue) : queue[i] = r /\ queue[j] = r => i = j)'
<1>1. \A i \in 1 .. Len(queue') : i + 1 \in 1 .. Len(queue) /\ queue'[i] = queue[i + 1]
  BY TailOfQueue
<1>2. 1 \in 1 .. Len(queue) /\ queue[1] = Head(queue)
  BY TailOfQueue
<1>3. \A i \in 1 .. Len(queue') : i + 1 # 1
  BY TailOfQueue
<1> QED
  BY <1>1, <1>2, <1>3 DEF Queued

\* A late block taken from the queue is in hand and nowhere else.
LEMMA TakeLate ==
  ASSUME PlayerTypeOK, LateBlocks, TakeAudio
  PROVE  LateBlocks'
<1>0. UNCHANGED <<late, checked, cleared>> /\ block' = Head(queue)
        /\ queue \in Seq(Response) /\ queue # <<>> /\ queue' = Tail(queue)
  BY DEF TakeAudio, decoderVars, PlayerTypeOK
<1>1. ASSUME NEW r \in Response, r <= cleared, OnePlace(r)
      PROVE  OnePlace(r)'
  <2>1. /\ Head(queue) = r => Queued(r) /\ ~Queued(r)'
        /\ Queued(r)' => Queued(r)
        /\ (\A i, j \in 1 .. Len(queue) : queue[i] = r /\ queue[j] = r => i = j)'
    BY <1>0, <1>1, HeadLeaves DEF OnePlace
  <2> QED
    BY <1>0, <1>1, <2>1 DEF OnePlace
<1> QED
  BY <1>0, <1>1, NothingNew

\* A late block that is played was the only one.
LEMMA PlaysLate ==
  ASSUME PlayerTypeOK, LateBlocks, NEW b \in Response, Plays(b), UNCHANGED <<cleared, checked>>,
         block = b \/ Queued(b), (block # b /\ ~Queued(b))',
         \A r \in Response : r <= cleared /\ OnePlace(r) =>
           /\ block' = r => block = r
           /\ Queued(r)' => Queued(r)
           /\ (\A i, j \in 1 .. Len(queue) : queue[i] = r /\ queue[j] = r => i = j)'
  PROVE  LateBlocks'
<1>0. late \in [Response -> Nat] /\ cleared \in Nat
  BY DEF PlayerTypeOK, Response, None
<1> SUFFICES ASSUME NEW r \in Response
             PROVE  /\ r > cleared => late'[r] = 0
                    /\ r <= cleared => late'[r] <= 1 /\ OnePlace(r)'
  BY DEF LateBlocks
<1>1. CASE r > cleared
  BY <1>0, <1>1 DEF Plays, LateBlocks, Response
<1>2. CASE r <= cleared
  <2>0. late[r] <= 1 /\ OnePlace(r)
    BY <1>2 DEF LateBlocks
  <2>u. /\ block' = r => block = r
        /\ Queued(r)' => Queued(r)
        /\ (\A i, j \in 1 .. Len(queue) : queue[i] = r /\ queue[j] = r => i = j)'
    BY <1>2, <2>0
  <2>1. CASE r = b
    <3>1. checked # b /\ late[b] = 0
      BY <1>0, <2>0, <2>1 DEF OnePlace
    <3>2. late'[b] = 1
      BY <1>0, <1>2, <2>1, <3>1 DEF Plays
    <3>3. checked' # r /\ block' # r /\ ~Queued(r)'
      BY <2>1, <3>1
    <3>4. OnePlace(r)'
      BY <2>u, <3>3 DEF OnePlace
    <3> QED
      BY <1>0, <1>2, <2>1, <3>2, <3>4 DEF Response
  <2>2. CASE r # b
    <3>1. late'[r] = late[r]
      BY <1>0, <2>2 DEF Plays
    <3>2. OnePlace(r)'
      BY <2>0, <2>u, <3>1 DEF OnePlace
    <3> QED
      BY <1>0, <1>2, <2>0, <3>1, <3>2 DEF Response
  <2> QED
    BY <2>1, <2>2
<1> QED
  BY <1>0, <1>1, <1>2 DEF Response

\* A late block that is written is used up.
LEMMA WriteLate ==
  ASSUME PlayerTypeOK, BlockHeld, LateBlocks, WriteDone
  PROVE  LateBlocks'
<1>0. block \in Response /\ block' = None /\ Plays(block)
        /\ UNCHANGED <<queue, cleared, checked>>
  BY DEF WriteDone, BlockHeld, decoderVars
<1>1. CASE block > cleared
  <2>1. late' = late
    BY <1>0, <1>1 DEF Plays, PlayerTypeOK, Response, None
  <2>2. \A r \in Response : block' # r
    BY <1>0 DEF Response, None
  <2>3. \A r \in Response : OnePlace(r) => OnePlace(r)'
    BY <1>0, <2>1, <2>2 DEF OnePlace, Queued
  <2> QED
    BY <1>0, <2>1, <2>3, NothingNew
<1>2. CASE block <= cleared
  <2>1. block' # block /\ \A r \in Response : block' # r
    BY <1>0 DEF Response, None
  <2>2. ~Queued(block) /\ \A r \in Response : Queued(r)' <=> Queued(r)
    BY <1>0, <1>2 DEF LateBlocks, OnePlace, Queued
  <2>3. \A r \in Response : OnePlace(r) =>
          (\A i, j \in 1 .. Len(queue) : queue[i] = r /\ queue[j] = r => i = j)'
    BY <1>0 DEF OnePlace
  <2> QED
    BY <1>0, <2>1, <2>2, <2>3, PlaysLate
<1> QED
  BY <1>0, <1>1, <1>2 DEF PlayerTypeOK, Response, None

\* So is one that the final drain writes.
LEMMA DrainLate ==
  ASSUME PlayerTypeOK, LateBlocks, DrainBlock
  PROVE  LateBlocks'
<1>0. UNCHANGED <<checked, block, cleared>> /\ queue \in Seq(Response) /\ queue # <<>>
        /\ queue' = Tail(queue) /\ Head(queue) \in Response
  BY TailOfQueue DEF DrainBlock, decoderVars, PlayerTypeOK
<1>1. ASSUME NEW r \in Response, r <= cleared, OnePlace(r)
      PROVE  /\ Head(queue) = r => Queued(r) /\ ~Queued(r)'
             /\ Queued(r)' => Queued(r)
             /\ (\A i, j \in 1 .. Len(queue) : queue[i] = r /\ queue[j] = r => i = j)'
  BY <1>0, <1>1, HeadLeaves DEF OnePlace
<1>2. ASSUME NEW r \in Response, r <= cleared, OnePlace(r), late' = late
      PROVE  OnePlace(r)'
  BY <1>0, <1>1, <1>2 DEF OnePlace
<1>3. CASE late' = late
  BY <1>0, <1>2, <1>3, NothingNew
<1>4. CASE late' # late
  <2>0. PICK b \in Response : b = Head(queue)
    BY <1>0
  <2>1. Plays(b) /\ b <= cleared
    BY <1>4, <2>0 DEF DrainBlock, Plays
  <2>2. OnePlace(b)
    BY <2>1 DEF LateBlocks
  <2>3. Queued(b) /\ ~Queued(b)' /\ block' # b
    BY <1>0, <1>1, <2>0, <2>1, <2>2 DEF OnePlace
  <2>4. \A r \in Response : r <= cleared /\ OnePlace(r) =>
          /\ block' = r => block = r
          /\ Queued(r)' => Queued(r)
          /\ (\A i, j \in 1 .. Len(queue) : queue[i] = r /\ queue[j] = r => i = j)'
    BY <1>0, <1>1
  <2> QED
    BY <1>0, <2>1, <2>3, <2>4, PlaysLate
<1> QED
  BY <1>3, <1>4

\* Where the player drops what it holds: only the checked block is left.
LEMMA Dropped ==
  ASSUME PlayerTypeOK, LateBlocks, UNCHANGED <<late, checked>>, queue' = <<>>,
         block' \in {block, None}, cleared' = cleared \/ block' = None,
         cleared' \in Nat, cleared' >= cleared
  PROVE  LateBlocks'
<1> SUFFICES ASSUME NEW r \in Response
             PROVE  /\ r > cleared' => late[r] = 0
                    /\ r <= cleared' => late[r] <= 1 /\ OnePlace(r)'
  BY DEF LateBlocks
<1>0. cleared \in Nat /\ r \in Nat /\ None # r
  BY DEF PlayerTypeOK, Response, None
<1>1. ~Queued(r)' /\ (\A i, j \in 1 .. Len(queue) : queue[i] = r /\ queue[j] = r => i = j)'
  BY EmptyQueue DEF Queued
<1>2. CASE r > cleared
  <2>1. late[r] = 0
    BY <1>2 DEF LateBlocks
  <2>2. r <= cleared' => block' # r
    BY <1>0, <1>2
  <2> QED
    BY <1>1, <2>1, <2>2 DEF OnePlace
<1>3. CASE r <= cleared
  <2>1. late[r] <= 1 /\ OnePlace(r)
    BY <1>3 DEF LateBlocks
  <2>2. block' = r => block = r
    BY <1>0
  <2> QED
    BY <1>0, <1>1, <1>3, <2>1, <2>2 DEF OnePlace
<1> QED
  BY <1>0, <1>2, <1>3

\* Every step keeps late blocks in one place and their number at most one.
LEMMA LateBlocksKept ==
  ASSUME IInv, Next
  PROVE  LateBlocks'
<1> USE DEF IInv
<1>0. cleared \in Nat /\ cut \in Nat /\ cleared <= cut
  BY DEF PlayerTypeOK, Response, None
<1>1. ASSUME UNCHANGED <<cleared, late, checked, queue>>,
             block' = block \/ block' = None
      PROVE  LateBlocks'
  <2>1. \A r \in Response : OnePlace(r) => OnePlace(r)'
    <3>1. \A r \in Response : block' = r => block = r
      BY <1>1 DEF Response, None
    <3> QED
      BY <1>1, <3>1 DEF OnePlace, Queued
  <2> QED
    BY <1>1, <2>1, NothingNew
<1>2. CASE InterruptCloses \/ InterruptClears \/ BeginResponse \/ Shutdown \/ Finish
             \/ CancelSession
  BY <1>1, <1>2 DEF InterruptCloses, InterruptClears, BeginResponse, Shutdown, Finish,
                   CancelSession, decoderVars, playerVars
<1>3. CASE Abort \/ WriteFails \/ CloseAplay
  BY <1>0, <1>3, Dropped DEF Abort, WriteFails, CloseAplay, decoderVars
<1>4. CASE SeeClear
  BY <1>0, <1>4, Dropped DEF SeeClear, decoderVars
<1>5. CASE Flushed \/ SeeControl \/ SpawnAplay \/ Drained
  BY <1>1, <1>5 DEF Flushed, SeeControl, SpawnAplay, Drained, decoderVars
<1> QED
  BY <1>2, <1>3, <1>4, <1>5, CheckLate, SendLate, TakeLate, WriteLate, DrainLate
  DEF Next, Steer, PlayerStep

--------------------------------------------------------------------------------
\* The invariant is inductive.
LEMMA Step == IInv /\ [Next]_vars => IInv'
<1> SUFFICES ASSUME IInv, [Next]_vars PROVE IInv'
  OBVIOUS
<1>1. CASE Next
  <2>1. PlayerTypeOK'
    BY <1>1, SteerTypes, DecoderTypes, PlayerTypes DEF Next, IInv
  <2> QED
    BY <1>1, <2>1, GateStaysFresh, BlockStaysHeld, LateBlocksKept DEF IInv
<1>2. CASE UNCHANGED vars
  BY <1>2 DEF vars, loopVars, decoderVars, playerVars, IInv, PlayerTypeOK, GateFresh, BlockHeld,
              LateBlocks, OnePlace, Queued
<1> QED
  BY <1>1, <1>2

\* The inductive invariant of the player, the decoder and the event loop.
THEOREM PlayerInvariant == Spec => []IInv
<1> QED
  BY Start, Step, PTL DEF Spec

\* The values stay in their types; the queue never exceeds its capacity
\* (PLAYBACK_QUEUE_CAPACITY).
THEOREM PlayerTypeCorrect == Spec => []PlayerTypeOK
<1>1. IInv => PlayerTypeOK
  BY DEF IInv
<1> QED
  BY <1>1, PlayerInvariant, PTL

\* After the flush of an interruption at most one block of the interrupted
\* response is played (try_audio, interrupt_playback, run_player).
THEOREM LateBlockBound == Spec => []OneLateBlock
<1>1. IInv => OneLateBlock
  BY DEF IInv, LateBlocks, OneLateBlock, PlayerTypeOK, Response, None
<1> QED
  BY <1>1, PlayerInvariant, PTL

\* No aplay is started after stop, finish or the cancellation of the session
\* (construct_player_if_running).
THEOREM StopHolds == Spec => NoPlayerAfterStop
<1>1. [Next]_vars => [process' /\ ~process => control = "Running" /\ ~cancelled]_vars
  <2> SUFFICES ASSUME Next, process', ~process
               PROVE  control = "Running" /\ ~cancelled
    OBVIOUS
  <2>1. CASE SpawnAplay
    BY <2>1 DEF SpawnAplay, MaySpawn
  <2> QED
    BY <2>1 DEF Next, Steer, PlayerStep, InterruptCloses, InterruptClears, BeginResponse, Shutdown,
                Finish, Abort, CancelSession, CheckAudio, SendAudio, SeeClear, Flushed, SeeControl,
                TakeAudio, WriteDone, WriteFails, DrainBlock, Drained, CloseAplay, playerVars
<1> QED
  BY <1>1, PTL DEF Spec, NoPlayerAfterStop
================================================================================

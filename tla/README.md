# SimpleTransceiver in TLA+

SimpleTransceiver is an Android push-to-talk application.  Phones on one IP
network take the floor with a START packet, send encrypted audio over RTP while
the button is held, and give the floor back with STOP.  There is no server:
every phone passes START, STOP and audio on to the phones of its own *send
target list*.  This directory holds TLA+ models of that program, the TLC
configurations that check them, and TLAPS proofs about them.

Paths below are relative to
`src/app/src/main/java/com/example/bironu/simpletransceiver/`; those that begin
with `jni/` to `src/app/src/main/`.

## 1. Inventory

| Component | State | Operations | What makes it correct | Model |
|---|---|---|---|---|
| Session and control packets: `service/RtpSession`, `CtrlPacket*` | level, ssrc, key and IV, sequence number | `beginSession`, `setSessionParam` (two), `endSession`, START and STOP as built from it | only a higher level preempts; phones in one call agree on it | `RtpSession` |
| Floor control: `service/RtpServiceBinderImpl`, `CtrlPacketReceiveJob` | session, microphone relayer, speaker relayer, control receiver, address, target list, workers | `beginRtpSender`, `endRtpSender`, `beginRtpReceiver`, `endRtpReceiver` (two), `sendCtrlPacket`, `setLocalIpAddress`, `onCursorLoadFinish`, `close` | one direction at a time; a relayer works for its own session; floods end; the highest level gets the floor; a release reaches all | `FloorControl` (handlers atomic, many phones), `BinderThreads` (statement by statement, one phone), `Floor` (what it promises) |
| Service: `service/RtpService`, `RtpServiceBroadcastReceiver` | the binder | `onCreate`, `onDestroy`, sticky restart, CONNECTIVITY_ACTION | no restart leaves half a call on the phone itself; it ends with the screen | `FloorControl`, `Screen` |
| Jobs: `CtrlPacketSendJob`, `io/JobWorker` | loop flag, counter, buffer | `action`, `halt` | a job sends what it was given, once | `CtrlJobs`; one step of `FloorControl` |
| RTP input: `io/RtpPacketInputter`, `PacketInputter` | sequence window, time-out count and limit, socket | `input`, `close` | follows the talker, gives up when he is silent, never waits for ever | `RtpPacketInputter` |
| Relayer: `io/DataRelayer` and its outputters | loop flag, input, outputter list and its lock, shared buffer | `run`, `halt` | a halt ends it, closes everything and cuts no round; forwards what it received | `DataRelayer` |
| RTP output: `RtpPacketOutputter`, `rtp/RtpPacket` | header bytes | `output` | header round trip, numbers in a row | only the ssrc (`FloorControl`) |
| Microphone, speaker, AES | device, cipher | `input`, `output` | the key of the call | only the key |
| Codecs: `codecs/Speex`, `jni/codec/speex_jni.cpp` and libspeex | open count, encoder submode, two bit buffers | `open`, `close`, `encode`, `decode` | a frame survives; no access outside the buffer; `decode` returns | `SpeexBits`, `SpeexModes`, `SpeexCodec`, without the signal processing |
| Other codecs: `codecs/G711`, SILK, BroadVoice, GSM, G.722, `OSNetworkSystem.cpp` | - | - | - | not run by the program |
| Main screen: `activitys/main` | toggle, status, label, service connection | press, release, broadcasts, life of the activity | shows what the service does | `Screen`; the last broadcast also in `FloorControl` |
| Target list: `data/`, content provider | rows | insert, delete, reload | the binder iterates over one list | a constant; its reload in `BinderThreads` |
| Preferences, dialogs, events | stored values | get, set | - | the account level is an input |

**How they interact.**  The screen calls the binder on the main thread.  A
`JobWorker` thread of the executor blocks on the control port and calls
`beginRtpReceiver` and `endRtpReceiver` on the same binder.  Each outgoing
control packet is another job on the same cached pool, so packets of one phone
leave in any order; one that is passed on is sent from the buffer of the
receiver.  Each relayer has a thread; it shares `mRtpSession` with the binder,
and the listener's one ends the session itself when the talker falls silent.
Connectivity changes reach the binder by a broadcast, and broadcasts tell the
screen of receptions.

**What is hard.**  Two phones that press at once; forwarded copies of a START
that arrive late and by another path; cycles of target lists; lost, repeated and
reordered datagrams; sockets that fail half way through a method; the restart of
a service whose call goes on elsewhere; a press that crosses with a START inside
one phone; a relayer halted in any of its steps; a session shared by four kinds
of thread; a buffer that is refilled while it is sent; 16-bit numbers and a
time-out taken from the wall clock; an activity that is made anew under a running
service; a bit buffer that grows, and packets of unknown contents that steer a
read pointer backwards.  `PROJECT.json` lists these hazards at their lines.

## 2. Modules

| Module | Role |
|---|---|
| `RtpSession` | operators: the session, START and STOP |
| `Floor` | abstract specification: who is in which call, at which level, and who talks |
| `FloorControl` | state machine: all phones and the network between them; implements `Floor` |
| `FloorControl_proof` | the inductive invariant, the refinement and six theorems |
| `FloorFloods_proof` | what the floods of START and STOP come to: three more theorems |
| `MCFloorControl` | target lists, levels and symmetry for TLC |
| `BinderThreads`, `BinderThreads_proof` | the binder of one phone, statement by statement, under its threads |
| `CtrlJobs`, `CtrlJobs_proof` | control packets inside one phone: buffers, send jobs, workers |
| `RtpPacketInputter`, `RtpPacketInputter_proof`, `MCRtpPacketInputter` | the listener's end of the audio path |
| `DataRelayer`, `DataRelayer_proof`, `MCDataRelayer` | one relayer thread and the threads that halt it |
| `Screen`, `Screen_proof` | the main screen and its service |
| `SpeexBits`, `SpeexModes` | operators: the bit buffer, and the layout of a frame |
| `SpeexCodec`, `SpeexCodec_proof` | the codec as the program uses it |

`FloorControl` and `BinderThreads` both build on `RtpSession`, so that a session
changes in the same way in both.  The modules of one phone's parts each leave out
what another one has: `FloorControl` takes a method of the binder, a job and the
end of a relayer as one step each, and `BinderThreads`, `CtrlJobs` and
`DataRelayer` show what is inside these steps and where that abstraction ends.

Operators whose comment begins with *Plausible bug* are no part of a
specification.  Each is a broken form of the operator after it, and shows that
some property would notice.

### RtpSession and FloorControl

A call is the lifetime of one random ssrc.  Two things in the code matter and are
kept: the level of a START has 16 bits (`LevelMod`), and `setSsrc` masks with the
long -1, so the talker keeps 64 bits and does not recognise a STOP of its own
call (`wide`, `SameSsrc`).  A key is named after the call it was made for.
`endSession` leaves the key, as the code does.

| FloorControl | code |
|---|---|
| `PressToTalk` | `beginRtpSender`, with its guard; outcome `noOutputter` is a target's socket that throws after `mMic2Packet` has been set |
| `Release` | `endRtpSender` |
| `ReceiveStart`, `RefuseStart`, `ReceiveStop` | `CtrlPacketReceiveJob.action` with `beginRtpReceiver` and `endRtpReceiver(stop)`; outcome `noSocket` is the RTP port that cannot be bound |
| `RunJob` | `CtrlPacketSendJob.action`: one datagram for each target |
| `Lose`, `Repeat` | UDP; reordering is the choice of the next message |
| `FirstAudio`, `AudioTimeout`, `SilenceTimeout` | what `RtpPacketInputter` does to the session and to `mPacket2Speaker`, for audio that is late and for none at all |
| `RelayerFails` | an exception in `DataRelayer.run` |
| `LinkChanges`, `AddressChanges`, `ConnectivityAction` | the link is lost or comes back, the phone gets another address, and `setLocalIpAddress` |
| `Destroy`, `Kill` | `onDestroy` with `close`, and a killed process; both followed by `onCreate` |

The private operators `EndRtpSender(p)`, `BeginRtpReceiver(p, ...)` and so on
are the methods of the binder as functions of one phone, in the order of the
code's statements, sockets that throw included.

`left` and `torn` are history: the calls that some phone has left, and those
left while a START of theirs was still under way.  They occur in properties
only.

**Atomicity.**  A method of the binder is one step.  In the code the main, the
control and a relayer thread may overlap in `beginRtpReceiver` and
`beginRtpSender`, which share no lock; what can happen then is the subject of
`BinderThreads`.  A job holds its packet; when it does in the code, `CtrlJobs`
says.  Two ssrc values never collide.

**Addresses and faults.**  `mLocalInetAddress` is null, the address the phone has, or
one it had (`LocalAddress`).  Between a change of the address and `setLocalIpAddress`
what is bound to the old one neither sends nor receives, and no new socket can be
bound.  The target lists and packet filters of the *other* phones name a
phone, whatever its address: that they would have to be edited is left out.
Losing the link and getting another address are faults; a link that comes
back is none.  Audio that comes too late for the adapted time-out is a fault; silence
is none, it follows from what the talker's side does.

| Property | It says |
|---|---|
| `HalfDuplex` | no phone talks and listens at once |
| `RelayerOwnsSession` | a microphone relayer belongs to the call its phone began; a running relayer has the key of the current session |
| `CallAgreement` | phones in one call agree on key and (16-bit) level |
| `StopOnlyAfterEnd` | no STOP of a call is under way while its talker talks |
| `RelayTree` | until somebody leaves a call its relayers form a tree rooted at the talker |
| `PriorityWins` | until a button is released: once nothing is under way every phone is in the call of the highest level |
| `ReleaseReachesAll` | a call that had been settled before its release keeps nobody |
| `FloodsDieOut` | START and STOP do not circulate for ever, unless a call was given up while a START of it was under way |
| `OrphansLeave` | a call whose talker has vanished does not go on among listeners that forward to each other: whoever has heard audio of it leaves, for good |
| `FloorPromise` | every behaviour is one of `Floor` |
| `ScreenShowsSession` | violated, see section 5 |

**Floor.**  The refinement mapping reads the membership and level of a phone from
its session, the talkers from `mic.state`, and the calls from the history `call`.
A phone is in one call at most; a call is begun by one phone, and a phone gets
into another one only by a level above that of its own (there is no separate
property for preemption: this is it).  Everything else the
protocol does - jobs, datagrams, relayers, broadcasts - is invisible there.

### BinderThreads

A thread is the list of the statements it still has to do; `BeginRtpReceiver`,
`EndRtpSender` and the others are the methods as such lists, in the code's order
and with the methods they call put in.  Only statements that read or write
a field another thread uses are there.  One action is one statement.

| BinderThreads | code |
|---|---|
| `MainCall`, `ReceiveStart`, `ReceiveStop` | a press, a release, a change of the address, `onCursorLoadFinish` on the main thread; a START or a STOP on a control receiver |
| `Decides` | `beginSession`, and the ssrc test of `endRtpReceiver(stop)` |
| `Has`, `Halt`, `Clears`, `EndsSession` | the test of the field, `halt` through the field read again, `= null`, `endSession` |
| `Iterates`, `Queues`, `ListChanged` | the synchronized `sendCtrlPacket` with its iteration over the target list, and its ConcurrentModificationException |
| `TakesOver`, `Binds`, `Deciphers`, `SetsSpeaker`, `NewCall`, `MakesKey`, `SetsMic`, `Makes`, `Runs` | the rest of `beginRtpReceiver` and `beginRtpSender` |
| `Locks`, `EndsCtrl`, `BeginsCtrl`, `BindsNoCtrl`, `Reloads` | `setLocalIpAddress` under the monitor, and the refill of the target list |
| `GivesUp`, `StopsReceiving` | the relayer of a listener that decides to end the session, and does |

`Runs` reads the field again, as the code does (`ToRun`): it throws if another
thread has set it to null, and else starts the relayer that the field holds by
then, which need not be the one this thread made.

`overlapped` is history: the pairs of calls that have been under way at once.
The properties say which promise survives which overlap.  `OneDirection` falls
only to a press against a START; a field that another thread has set to null ends
the process or the receiver only in `EndRace` (a press, release or change of
address against a START, a press or a change of address against a STOP), and only
there can a relayer be left that the binder does not know of; a relayer has the
call and the key of the session, and START and STOP are built from the right
session, unless in addition a relayer that gives up meets a press or a START.  All
other overlaps are harmless.  The five properties thus do *not* cover the races they
name: those go wrong, `binder_overlap` shows one of them, and section 5 lists
what the others come to.  What the properties show is that no further pair of
calls is dangerous, and that the statements of each method are in an order that
the harmless overlaps do not upset.  `ComesToRest`: nobody waits for the monitor for
ever, even when the holder is ended by an exception.

### CtrlJobs

The control receiver and the send jobs of one phone, and the loop of `JobWorker`
that runs both.  A buffer has three pieces (type, ssrc and level, key), so that a
datagram may be caught half written.  `Arrives` and `Fills` are `receive`;
`Accepts` is a packet that the binder passes on *in place*, `SendsOwn` one of its
own in a new array; `Tests`, `Outputs`, `OutputThrows` and `ActionEnds` are a send
job; `Halt` is `JobWorker.halt` of a job.  That of the receiver is two steps of
another thread: `EndCtrlReceiver` clears the flag, `ClosesReceiver` closes the
socket, and the loop may run between them.  `ReceiveThrows` is an IOException,
on an open socket too, after which `action` returns true; `ReceiverThrows` an
exception of the binder, and `ReceiverTests` an interrupt, that end the worker.

`AsMadeUnlessOverwritten`: a job sends what it was made for, unless it passes on
the receive buffer and another datagram has arrived since - then it may send
anything (section 5), so this shows which packets are safe and no more.  `AtMostOnce`: no
packet goes twice to a target, whatever `REPEAT_COUNT` says.  `HaltEndsReceiver`:
a receiver whose flag is cleared and whose socket is then closed ends, wherever in
its loop it was, although its `action` returns true on a closed socket.

### RtpPacketInputter

One thread, alternating between `receive` and the rest of `input`; the binder closes
the socket, ends the session and begins another at any moment between. `Receive`,
`TimesOut` and `ReceiveFails` are the ways `receive` returns; `NoSession`, `Waits`,
`GivesUp`, `SetTimeoutThrows`, `Ignores` and `Hears` are the paths through the rest.
`NextSeqNum`, `NextBadSeq`, `Dropped` and `NextLimit` are the arithmetic. `Elapsed`
is a set of wall-clock differences and may hold negative ones. `mTimeoutLimit` is a
Java int without a ceiling: `ToInt` is the cast of line 147 and the wrap-around of
the sum, with `IntMax` in the place of 2^31 - 1.  A limit that has grown past it
goes negative; on the next time-out `setTimeout` throws, and the relayer ends while
its session goes on.

`TimerArmed`: while the socket is open SO_TIMEOUT is positive exactly when audio has
been heard, wherever the clock jumps and the limit overflows (0 means for ever).
`CatchesUp`: after `MAX_MISORDER + 3` packets in a row the session follows the
talker again, whatever came before.  `EndsAfterSilence`: when nothing comes any more
the thread ends.  `ResyncAfterTwo` is violated (section 5).

### DataRelayer

The relayer's loop and `halt`, step by step: the test of the flag, the return of
`input`, the lock of `mOutputterList`, one output, one close.  `halt` is called
by the threads of `Halter` and by the relayer's own `finally`.  The last
outputter is the speaker, which decrypts in the buffer all of them share.

`RoundIsWhole`: no halt closes some outputters while a round of outputs goes on.
`ForwardsAsReceived`: targets never get decrypted audio.  `NothingLeftOpen`: a
relayer that has ended has closed everything, exceptions included.
`HaltEndsAll`: every halt returns and ends the relayer, even one blocked in
`receive`.

### Screen

The `MainActivity` with its view model, views and use case (`screen`), the service
as far as the screen can tell (`service`), and the broadcasts under way.
`SwitchesOn` and `SwitchesOff` are the listener of the toggle
(`MainUseCaseImpl.startSendRtp`, `stopSendRtp`); `Rebinds` is the frame in which
the one-way binding sets the toggle back to a status that is always false, which
calls that listener again; `Launches`, `Connects`, `ComesAndGoes`, `IsDestroyed`,
`IsMadeAnew` and `Finishes` are the life of the activity; `BroadcastArrives` is
`MainBroadcastReceiver`, registered while the activity is started.
`ReceiveStart`, `ReceiveStop`, `LinkChanges` and `ReceptionTimesOut` are what
happens to the service meanwhile.

`MicrophoneIsShown`: an open microphone shows as a toggle that is on, unless the
activity was made anew.  `ToggleMeansTalk`: a toggle that is on means a talk,
unless others have ended it.  `ReceptionIsShown`: the label tells of every
reception that goes on, and of nothing but a receiver that the binder has.  Three
cases are left out.  Two are wrong in the code, until the next broadcast: the last
one found the screen stopped or was got by one made anew since (`missed`), or it said
BEGIN for a reception whose port could then not be bound (`untrue`).  The third is
silence: after `ReceptionTimesOut` the session is over and the binder keeps its
receiver.  The TODO at `io/RtpPacketInputter.java:80` says that the screen has to be
told; it is not, which `floor_screen` shows, and what the label says from then on is
not claimed here.
`FinishSilences`: leaving the screen closes the microphone.

### SpeexBits, SpeexModes, SpeexCodec

`SpeexBits` is `bits.c`: pack, unpack, advance, write and read, with the pointers,
the growth of the buffer and the clearing of chars as they are reached.  A bit is
0, 1 or a name for one bit of one frame, so that a bit left over from another frame
is seen.  `SpeexModes` has the tables of `modes.c` and two lists of field widths,
translated separately from `nb_encode` and `nb_decode`.  `SpeexCodec` is
`speex_jni.cpp` with its static buffers: `Open`, `Close`, `Encode`, `PackField`,
`Encoded`; and `Decode` with the search of `nb_decode` for a narrowband frame -
`ReadsBand`, `SkipsLayer`, `ReadsSubmode`, `SkipsRequest`, `ReadsFrame` - in packets
of this encoder and in packets of any contents, which a wrong key yields.

`FrameSurvives`: a frame is decoded to the bits that were encoded, and has the
length that `modes.c` says.  `InsideBuffer`: the char that `speex_bits_pack` clears
is allocated.  `DecodeReturns`: the search ends, although a wideband layer of
length 0 steps the read pointer back (`TypeOK` has that it never gets negative).

## 3. Runs

| Run | Instance | Shows |
|---|---|---|
| `floor_network` | 2 phones, 2 calls, levels 3 and 0 with `LevelMod` 2, one fault of any of the 7 kinds, one release | `TypeOK`, `CallAgreement`, `StopOnlyAfterEnd`, `HalfDuplex`, `RelayerOwnsSession`, `FloorPromise` |
| `floor_ring` | 3 phones in a one-way ring, 3 levels, 2 calls, 2 releases, no fault, fair | `RelayTree`, `PriorityWins`, `ReleaseReachesAll`, `FloodsDieOut` |
| `floor_orphans` | a talker with two listeners that are targets of each other, one call, one release, two faults: lost packets, restarts, late audio; fair | `OrphansLeave` |
| `floor_screen` | 2 phones, one time-out | violation of `ScreenShowsSession` |
| `inputter` | 3-bit numbers, 3-bit ints, window 2 and 2, two time-outs, clock steps -1, 1, 3 | `TypeOK`, `TimerArmed`, `CatchesUp`, `EndsAfterSilence` |
| `inputter_resync` | the same | violation of `ResyncAfterTwo` |
| `relayer` | 2 targets and the speaker, 2 halting threads | `TypeOK`, `RoundIsWhole`, `ForwardsAsReceived`, `NothingLeftOpen`, `HaltEndsAll` |
| `binder_threads` | main thread, 2 control receivers, any 3 calls, 3 ssrc values, levels 0, 1, 2 | the five `...UnlessCrossed`, `TypeOK`, `ComesToRest` |
| `binder_overlap` | the same, the main thread only presses | violation of `OneDirection` |
| `ctrl_jobs` | 2 targets, 2 jobs, 2 datagrams, one call of its own and one of another phone | `TypeOK`, `AsMadeUnlessOverwritten`, `AtMostOnce`, `HaltEndsReceiver` |
| `screen` | levels 0, 1, 2, three broadcasts under way, four calls from outside | `TypeOK`, `MicrophoneIsShown`, `ToggleMeansTalk`, `ReceptionIsShown`, `FinishSilences` |
| `speex` | every submode (8 qualities), 4 calls of open, close, encode, decode; buffer of 16 chars, packets of 64 | `TypeOK`, `InsideBuffer`, `FrameSurvives`, `DecodeReturns` |

**Bounds, and why they are enough.**  In `floor_*`, `Call` bounds the number of
presses: two calls are one preemption or one call after another, the least in which
a phone can hold state of an old call while a new one goes on.  Two phones show
every exchange between a talker and a listener; a third is needed for forwarding,
for two paths to one phone and for a cycle.  `MaxFaults` and `MaxReleases` bound
faults and releases.  `LevelMod = 2` puts the account level 3 beyond the width of
the field (it reaches the others as 1), so truncation happens; `LevelMod = 4` in the
other runs keeps all levels apart.  All properties of `floor_network` are also
proved without any of these bounds.  The ring of `floor_ring` is the smallest graph
with a cycle in which a START comes back to its talker; with more targets, as in a
full mesh, the floods of a release grow past what can be searched, and there the
three invariants of this run rest on their theorems, which hold for any targets.
Symmetry is used in `Call` only, which no action or property tells apart; the
liveness runs use none.  In `floor_orphans` two listeners are the least that can
keep a call alive between them, and two faults are a lost STOP (or a talker that is
killed) and one more; a second call would only preempt the first.

`SeqMod = 8` with a window of 2 and 2 leaves room for a jump on both sides, and
every number wraps; `run` stops at `Enough`, since no property looks further.
`IntMax = 3` makes the ints of the time-out limit so short that a few early packets
and time-outs overflow it; there is no other bound on the limit.

In `binder_threads` three calls are what it takes to have a relayer, and two
calls that overlap about it; every pair of methods overlaps in every order.  Four
calls of press, release and address with one receiver (1.5 million states) gave
no further exception to any property.  In `ctrl_jobs` two datagrams are one that a
job passes on and one that overwrites it; two jobs are two that share the buffer.
In `screen` four calls from outside are two receptions, the second of which ends
the first or the talk; three broadcasts are the most that one step can leave when
one is still under way.  In `speex` four calls are an open, two frames in
the same buffer and a decode; the buffer of the code has 2000 chars and never
grows with one frame of at most 62, so a smaller one makes it grow.  The qualities
leave out those that `quality_map` maps to the same submode.

Deadlock checking is off everywhere: a service at rest, an inputter, a relayer and
a worker that have ended have nothing to do.

**Fairness, and why the code has it.**  `floor_ring`: a queued job runs
(`Executors.newCachedThreadPool` gives it a thread) and a datagram does not stay in
the network for ever.  Nobody is made to press the button. `floor_orphans`: besides,
a listener that has heard audio and hears none any more times out
(`SilenceTimeout`): SO_TIMEOUT is armed by then, which is `TimerArmed`, and the
count is reached, which is `EndsAfterSilence` of `inputter`. `inputter`: the relayer
thread goes on when it can, and SO_TIMEOUT fires; no packet ever has to arrive.
`relayer`: threads go on when they can; a `receive` on an open socket need not
return, and the lock is only assumed weakly fair. `binder_threads`: each thread goes
on when it can, nobody is made to call. `ctrl_jobs`: the control receiver goes on,
and a thread that has cleared its flag goes on to close its socket; no datagram has
to arrive, and nobody has to halt.  `screen`: the main thread handles what is queued
for it; users, phones and the system's killing are not made to act.  `speex`: a
`decode` that was called goes on.

## 4. Proofs

All theorems hold for every value of the constants that satisfies the named
assumptions of the module: any finite or infinite set of phones, any target lists
(cycles and self-targets too), any integer account levels, any faults, any
window with `MAX_DROPOUT + MAX_MISORDER < SeqMod`, any clock, any number of
targets, halting threads, jobs, datagrams and calls, any levels, any size of the
bit buffer.  What a theorem assumes beyond that is in its statement and named
below.

`FloorControl_proof` - `TypeCorrect`, `HalfDuplexHolds`,
`RelayerOwnsSessionHolds`, `CallAgreementHolds`, `StopOnlyAfterEndHolds`,
`FloorPromiseHolds`.  None of these invariants is
inductive alone.  A phone gets its key and level from a packet, and a packet gets
them from a phone, so `IInv` ties both to the history `call`: a session is over
or has the key and the level (its own, or the 16 bits of it) of a call that was
begun (`SessionFits`); a microphone relayer implies the wide ssrc of the phone's
own call (`PhoneFits`); a packet carries key and level of a begun call
(`PacketFits`); no phone talks in a call a STOP of which is under way
(`NotTalking`).  The argument goes in two layers. First, one lemma per method of
the binder says what it does to a phone that fits (`EndRtpSenderEffect`,
`BeginRtpReceiverEffect`, ...).  Then `OnePhoneStep` shows once that replacing
one phone by one that fits, with at most new packets of its own, keeps `IInv`,
and each action is an instance of it. `FloorPromiseHolds` is the refinement:
`FloorStep` shows, per action, that the phone it is about begins a call, joins
one, leaves, or that none of the four abstract variables changes; `IInv` supplies
that a START carries the level and key of a begun call.

`FloorFloods_proof` - `RelayTreeHolds`, `PriorityWinsHolds`,
`ReleaseReachesAllHolds`; each is an invariant on top of `IInv`, and none needs to
know the order in which phones joined.
- `RelayTreeHolds`, for any targets and all faults.  A START comes from a phone that is in
  its call, unless somebody has left that call (`Origin`), so a listener that
  joins hears a phone that was in the call before it did: a circle of listeners
  would need one that had joined without.
- `PriorityWinsHolds`, for targets that connect the phones (`Connected`), repeated
  and reordered packets but no other fault (`MayRepeat`), levels of 16 bits
  (`LevelsFit`), until the first release (`releases = 0`).  The invariant
  (`PriorityInv`): the talker of a call at the highest level is still in it, and a phone
  at that level has its targets at that level or a START on its way to them.  When
  the floods have died out nothing is on its way, so the phones at the highest
  level are closed under targets: all of them.  Without the last hypothesis it
  is false of the protocol: a phone that still listens to an old call of the same
  level refuses the START, then takes the STOP of the old call, and stays idle.  A
  lost START is never sent again, and a level of more than 16 bits arrives as
  another one.
- `ReleaseReachesAllHolds`, for any targets, calls and releases, under `MayRepeat`
  and `LevelsFit`.  Once a call has been left no START of it is under way, and each of
  its listeners hears a phone that is still in the call or that has sent it what
  takes it out, a STOP of this call or a START of a higher level (`Led`).  Nothing
  under way, and no circle: then there is no listener.

`BinderThreads_proof` - `TypeOKHolds`, `OneDirectionHolds`, `SurvivesHolds`,
`NoOrphanHolds`, `OwnSessionHolds`, `OwnPacketHolds`, for any number of control
receivers, calls and levels.  `NamesAssumption` says that the main thread is no
receiver and that "none" is neither a thread nor a relayer, `MainCallsAssumption`
that the main thread calls what it has: press, release, link, reload.  The proof
goes in four layers.
- A thread's statements still to do are a rest of one of seven lists, the methods
  of the binder (`Fits`).  The statement it is at hence tells those ahead and behind
  (`Ordered`, `Followed`).
- Every step of the 28 statements, the calls and the relayers is an `Effect`, a
  `Called` or a `Relayed` (`NextFacts`): what it does to the fields, the session and
  the relayers.  The invariants are checked against these three only.
- What holds whatever overlaps: `Kept` (types, depth of the lock, a new relayer has
  a new name), `Overlaps` (the history has every two calls that are under way at
  once), `OneReceiver`, `KindsFit`.
- What holds until calls that race have overlapped: `Single` for press and START;
  `EndKept` for `EndRace`, where a thread between the test of a field and its use is
  alone with it (`Apart`); `SessionKept` for `SessionRace`, built on both.
The theorems are conditional because the code is: `binder_overlap` shows that
without the condition `OneDirection` fails, and the conditions name no more pairs
than the properties do.

`RtpPacketInputter_proof` - `TypeCorrect`, `TimerArmedHolds`, `CatchesUpHolds`.
`TimerArmed` needs that the limit itself is not 0 once audio has been heard on an
open socket - it may be negative after an overflow, but an int that grows by a step
of time does not become 0 without being set to 1 -, that a time-out is only ever
returned by an armed socket, and that a session that is not over has a number.
`CatchesUp`, which assumes `MAX_DROPOUT > 1`, needs to bound the packets in a row by
where the last one lies while the session does not follow: either it is a jump and
remembered, then it is the first in a row (or the second, if it is number 0 and the
one before was remembered as 2^16); or it lies at most `MAX_MISORDER` behind, and
nearer with each packet.

`DataRelayer_proof` - `TypeCorrect`, `RoundIsWholeHolds`,
`ForwardsAsReceivedHolds`, `NothingLeftOpenHolds`.  The strengthening: the owner
of the lock is exactly the thread inside it; the outputters are all open or all
closed unless a thread is at closing them, and then the closed ones are those
before its `next`; a thread at the end of `halt` has closed all; the buffer is
ciphertext until the last outputter of a round.

`CtrlJobs_proof` - `TypeCorrect`, `AtMostOnceHolds`,
`AsMadeUnlessOverwrittenHolds`.  The strengthening: the number of packets sent is
that of the targets passed in the first and only round; and what a job is *going* to
send is still what it was made for, with nobody filling its buffer, or a datagram
has arrived since.

`Screen_proof` - `TypeCorrect`, `MicrophoneIsShownHolds`, `ToggleMeansTalkHolds`,
`ReceptionIsShownHolds`.  The properties speak of a settled screen; the invariants
say how it stands in between (`MicrophoneKept`, `ToggleKept`, `ReceptionKept`: the
last broadcast under way, or else the label, says whether the binder has a receiver,
unless it was missed or untrue), and rest on
`ServiceNeedsScreen`: without a screen the service is gone or about to go.

`SpeexCodec_proof` - `InsideBufferHolds`, `TypeOKHolds`, `FrameSurvivesHolds`.
`speex_bits_pack` enlarges the buffer at most once per field; it suffices because no
field of any row of `modes.c` has more than 8 bits (`EncodeFieldsWidths`) and one
enlargement adds more than one char.  For `TypeOK` the pointers are followed through
`speex_bits_advance` with the negative number of a wideband layer of length 0: a
band bit has been read before it with three bits after it (`DecFits`), so it steps
back to that bit and stays at or after the first.  `FrameSurvives` assumes
`FrameSize >= 62`, the longest frame of `modes.c` (492 bits); the program has 160.
Two facts carry it.  The chars the encoder is going to write to are clear, also
after the buffer has grown (`ClearAhead`), so that what is written by *or* is what
was meant.  And for each of the eight submodes the fields `nb_encode` packs and
those `nb_decode` unpacks add up to the same number, that of `modes.c` (`RowsAdd`,
`LastField`).  The sums are recursive functions.  That they are what their
definitions say is proved by a least counterexample: `LeastNumber`, every set of
naturals has a least element, follows from the library's `NatLessThanWellFounded`,
and needs no theorem with an operator parameter.

**Only model-checked.**  The liveness properties `HaltEndsReceiver`,
`FinishSilences`, `DecodeReturns`, `ComesToRest`, `FloodsDieOut`, `OrphansLeave`,
`EndsAfterSilence` and `HaltEndsAll`, since the prover handles neither fairness
beyond simple rules nor ENABLED.  Every invariant and action property that a
run checks and that holds is a theorem.

**What no property covers.**  Some hazards of `PROJECT.json` are real defects of the
code, and a property that holds has to exclude them: START and STOP that chase each
other (`FloodsDieOut` and `OrphansLeave` ask that no call was torn), the races of
`EndRace` and `SessionRace` in the binder, the overwritten receive buffer, a listener
that never hears a first packet, a broadcast that was missed.  Their entries say so;
section 5 says what happens.

## 5. Disagreements with the code's own comments

- `floor_screen`: when the talker falls silent, `RtpPacketInputter` ends the
  session and tells nobody; the screen goes on showing "receiving".  The comment
  at `io/RtpPacketInputter.java:80` says it has to be told.
- `inputter_resync`: `mBadSequenceNumber = sequenceNumber + 1` is not brought back
  into 16 bits, so a restarted talker whose first packet is number 65535 is not
  recognised by its second.  The third brings the session back (`CatchesUp`).
- `binder_overlap`: `beginRtpSender` and `beginRtpReceiver` share no lock.  When a
  press and a START both pass `beginSession` before either has made its relayer,
  the phone talks and listens at once; the comments at
  `service/RtpServiceBinderImpl.java:70` and `:133` say that the other direction is
  ended by force.

Met while modelling, kept in the models where they bear on state, not a run of
their own.  In the binder:

- `endRtpReceiver` and `endRtpSender` read the field anew in each statement: if
  another thread has set it to null in between, the NullPointerException ends the
  process (main thread) or the control receiver.  `SurvivesUnlessCrossed` has the
  overlaps in which that can happen; in the same ones a relayer can be left
  running that the binder does not know of any more.
- a relayer that has decided to end the session may do so after a press or a
  START has begun the next one, and ends that.
- a reload of the target list under a control receiver that iterates over it ends
  the receiver: the phone is deaf until its address changes.
- after a link that was lost comes back with the same address, `setLocalIpAddress`
  sees no change and the phone stays deaf to START.
- `close` halts the job that would send the STOP it has just queued, walks
  `mWorkerList` while others may add to it, and closes the codec after a second
  although a relayer may still use it.  `mWorkerList` keeps every job ever made.
- after a quick press and release in a ring of targets START and STOP can chase
  each other, each START reopening the call the STOP before it closed; and two
  phones can go on listening to each other in a call that is over.
- a listener that never hears a first packet waits without a time-out, and one
  whose RTP port could not be bound stays in its session with no relayer to end.
- when the link is lost, the STOP that `setLocalIpAddress` builds is to be sent from the
  address that is gone: no job is made, and the targets notice only when the audio stops.
- `getNextSeqNum` is drawn once per target, so with two targets each sees gaps.

In the jobs:

- a packet that is passed on lies in the receive buffer until its job has sent it.
  A START overwritten by a STOP goes out as a STOP of 64 bytes; a STOP overwritten
  by a START goes out as a START of 16 bytes, whose receiver takes the key of
  whatever its own buffer held; a datagram may also go out half overwritten.
- `CtrlPacketSendJob` has REPEAT_COUNT 3, but its `action` returns false after one
  round and `JobWorker` stops at the first false: every packet is sent once.
- if one socket of several cannot be made, the constructor of the job throws and
  leaves the others open.

In the audio path and the screen:

- `io/RtpPacketInputter.java:137` says a repeated packet is dropped; its distance 0
  is inside the window and it is accepted.
- the time-out limit has no ceiling.  Packets that come early, time-outs and a clock that
  is set back make it grow.  When the 20 ms of a time-out carry it past 2^31 - 1 it is
  negative, `setTimeout` throws at the next one (`io/RtpPacketInputter.java:74`), and
  the relayer ends while the session goes on.
- the packet filter compares addresses only, though the comment at line 44 speaks
  of the port too; a filtered packet also restarts the socket's time-out.
- `mLastPacketLength` is never assigned, so a time-out replays nothing.
- `speex_jni.cpp` ignores the result of `speex_decode_int`: what could not be
  decoded is played as it lies in memory.  It also always hands over 160 bytes,
  whatever the length of the packet.
- `nb_celp.c` says of wideband layers that they are skipped; one of length 0 is
  read again until it counts as more than two, and the packet is refused.
- the toggle is not told that others have ended the talk; and an activity that was
  made anew shows it off while the microphone is open, until it is touched.

## 6. What is not modelled

The signal processing of Speex (filters, linear prediction, code book search) and
the contents of audio: numbers no property tells apart and no state depends on. Most
of the C code in the tree is no part of the program: `jni/codec/CMakeLists.txt`
builds `speex_jni.cpp` and the narrowband part of libspeex only, and SILK,
BroadVoice, GSM, G.722, spandsp, their JNI wrappers and `OSNetworkSystem.cpp` are
neither built nor loaded by any class; a model of them would say nothing about this
program.  The wideband, stereo, jitter-buffer, echo and resampling files of libspeex
are not built either.

The header codec of `RtpPacket`, the AES cipher and the audio devices.  Android's
database, preferences, layout, navigation and dialogs: no state of the protocol.
`close` walking the worker list while it changes, and use of the codec after it was
closed: undefined from there on.  Memory visibility of the unsynchronised fields:
every read sees the last write.

What could still be added: the RTP header as operators on bytes, checked against
its reading.

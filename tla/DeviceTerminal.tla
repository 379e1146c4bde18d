--------------------------- MODULE DeviceTerminal ---------------------------
(***************************************************************************)
(* A session on a HarmonyOS device: the terminal page, the state machine   *)
(* of its output (ReplayBuffer), the cache of the stream that it keeps on  *)
(* disk (TerminalCache), and the worker's scrollback buffer that answers   *)
(* it.                                                                     *)
(*                                                                         *)
(* The page paints the cache as soon as its webview is up and asks for     *)
(* what follows the cache's cursor; the answer is a delta or, when the     *)
(* cursor is too old, the whole retained buffer.  Webview, timers, network *)
(* and disk proceed independently: the answer may come before the webview  *)
(* is up, a connection may break inside an answer, the process may be      *)
(* killed between two writes of one commit.                                *)
(*                                                                         *)
(* Chunk n is the n-th that the shell printed.  A file is a sequence of    *)
(* chunks and separators, each of them one byte long.  The gateway in      *)
(* between is the subject of ReplayFanOut; here an answer is complete and  *)
(* live output follows it in order.  One shell lives throughout, and no    *)
(* scrollback snapshot is on the device.                                   *)
(***************************************************************************)
EXTENDS Naturals, Sequences, SequencesExt, FiniteSetsExt

CONSTANTS
  Retain,     \* chunks that the worker's buffer retains
  Padded,     \* chunks whose base64 form ends in padding
  CacheMax,   \* CACHE_MAX_BYTES
  CacheKeep,  \* CACHE_KEEP_BYTES
  MaxOut,     \* bound: chunks the shell prints
  MaxPages,   \* bound: times the page is opened
  MaxLinks,   \* bound: connections, over all pages
  MaxFails,   \* bound: requests to the worker that fail
  MaxKills    \* bound: commits that the process does not survive

ASSUME SizesAssumption == /\ {Retain, CacheMax, CacheKeep} \subseteq Nat \ {0}
                          /\ CacheKeep <= CacheMax
ASSUME BoundsAssumption == {MaxOut, MaxPages, MaxLinks, MaxFails, MaxKills} \subseteq Nat

VARIABLES
  last,   \* _lastSeq of the scrollback buffer
  down,   \* frames on their way to the page, oldest first
  link,   \* whether the page is connected
  page,   \* the page, its ReplayBuffer and what the terminal shows
  disk,   \* the cache's two files: bin, and meta as seq and bytes
  clean,  \* history: no kill, no failed request, no request with a stale cursor
  used    \* history, for the bounds: pages, links, fails and kills so far

vars == <<last, down, link, page, disk, clean, used>>

Sep == 0

(* split('|'), prefix by prefix.                                           *)
Chunks(t) ==
  LET upto[i \in 0..Len(t)] == IF i = 0 THEN <<>>
                               ELSE IF t[i] = Sep THEN upto[i - 1]
                               ELSE Append(upto[i - 1], t[i])
  IN upto[Len(t)]

Upward(a, b) == [i \in 1..(b + 1 - a) |-> a + i - 1]

(* chunks.join('|')                                                        *)
Pack(cs) ==
  [i \in 1..(IF cs = <<>> THEN 0 ELSE 2 * Len(cs) - 1) |->
     IF i % 2 = 1 THEN cs[(i + 1) \div 2] ELSE Sep]

(* Where padding is inside a frame, because no separator follows it.       *)
Glued(t) == {i \in 1..(Len(t) - 1) : t[i] \in Padded /\ t[i + 1] # Sep}

(* writeBatchedOutput: atob throws at a frame with padding inside, and     *)
(* that frame and all the later ones are not written.                      *)
Painted(t) ==
  IF Glued(t) = {} THEN Chunks(t)
  ELSE Chunks(SubSeq(t, 1, Max({0} \cup {i \in 1..Min(Glued(t)) : t[i] = Sep})))

-----------------------------------------------------------------------------
(* The cache.  Each operation is the sequence of states in which it leaves *)
(* the two files, system call by system call; an absent or truncated meta  *)
(* reads as the zero cursor.                                               *)

EmptyCache == [bin |-> <<>>, seq |-> 0, bytes |-> 0]

(* load: the counted prefix.                                               *)
Load(d) == IF d.bytes \in 1..(Len(d.bin) - 1) THEN SubSeq(d.bin, 1, d.bytes) ELSE d.bin

(* Truncating the bin, then writing it.                                    *)
WriteBin(d, t) == <<[d EXCEPT !.bin = <<>>], [d EXCEPT !.bin = t]>>

SetCursor(t, seq, bytes) ==
  <<[EmptyCache EXCEPT !.bin = t], [bin |-> t, seq |-> seq, bytes |-> bytes]>>

ClearCursor(t) == <<[EmptyCache EXCEPT !.bin = t]>>

(* Mutant of ReplaceCache: the cursor is not dropped.                        *)
ReplaceCacheOnly(d, t) == WriteBin(d, t)

ReplaceCache(d, t) == WriteBin(d, t) \o ClearCursor(t)

Clear(d) == <<[d EXCEPT !.bin = <<>>], EmptyCache>>

Cuts(t) == {i \in (Len(t) - CacheKeep + 1)..Len(t) : t[i] = Sep}

TrimIfNeeded(d) ==
  IF Len(d.bin) <= CacheMax \/ Cuts(d.bin) = {} THEN <<>>
  ELSE LET cut  == Min(Cuts(d.bin))
           tail == SubSeq(d.bin, cut + 1, Len(d.bin))
       IN WriteBin(d, tail) \o IF d.bytes <= cut THEN ClearCursor(tail)
                               ELSE SetCursor(tail, d.seq, d.bytes - cut)

CommitDelta(d, cs, seq) ==
  LET merged == d.bin \o Pack(cs)
  IN WriteBin(d, merged) \o SetCursor(merged, seq, Len(merged))
     \o TrimIfNeeded([bin |-> merged, seq |-> seq, bytes |-> Len(merged)])

-----------------------------------------------------------------------------
(* The page.                                                               *)

Closed ==
  [open |-> FALSE,       \* between aboutToAppear and aboutToDisappear
   ready |-> FALSE,      \* webviewReady
   fit |-> FALSE,        \* initialFitDone
   since |-> 0,          \* replaySinceSeq, which is also the delta base
   replaying |-> FALSE, swap |-> FALSE, batches |-> <<>>, parts |-> <<>>,
   scheduled |-> FALSE,  \* flushScheduled
   timers |-> 0,         \* scheduled flushes that have not run
   screen |-> <<>>,      \* the chunks that the terminal shows
   fed |-> FALSE,        \* history: a frame has arrived
   sound |-> TRUE]       \* history: none before the webview was up, and the cache was whole

Init ==
  /\ last = 0
  /\ down = <<>>
  /\ link = FALSE
  /\ page = Closed
  /\ disk = EmptyCache
  /\ clean = TRUE
  /\ used = [pages |-> 0, links |-> 0, fails |-> 0, kills |-> 0]

PushPaint(p, n) ==
  [p EXCEPT !.batches = Append(@, n),
            !.timers = IF p.ready /\ ~p.scheduled THEN @ + 1 ELSE @,
            !.scheduled = @ \/ p.ready]

(* Mutant of FlushBatch: the flag stays.                                   *)
FlushBatchOnce(p) == [p EXCEPT !.screen = @ \o p.batches, !.batches = <<>>]

FlushBatch(p) ==
  [p EXCEPT !.scheduled = FALSE, !.screen = @ \o p.batches, !.batches = <<>>]

Settles(p) == ~p.replaying /\ p.ready

(* Mutant of SwapReplayedScreen: the replay is appended to the screen.     *)
AppendReplayedScreen(p) ==
  [p EXCEPT !.swap = FALSE, !.screen = @ \o p.batches, !.batches = <<>>,
            !.scheduled = IF p.batches = <<>> THEN @ ELSE FALSE]

(* The swap of the screen, without the snapshot of an earlier session.     *)
SwapReplayedScreen(p) ==
  [p EXCEPT !.swap = FALSE, !.screen = p.batches, !.batches = <<>>,
            !.scheduled = IF p.batches = <<>> THEN @ ELSE FALSE]

Settle(p) ==
  CASE ~Settles(p) -> p
    [] Settles(p) /\ p.swap -> SwapReplayedScreen(p)
    [] OTHER -> FlushBatch(p)

(* What the swap in Settle does to the cache.                              *)
SwapWrites(p, d) ==
  IF ~(Settles(p) /\ p.swap) THEN <<>>
  ELSE IF p.batches = <<>> THEN Clear(d) ELSE ReplaceCache(d, Pack(p.batches))

(* A handler ends with page p after these writes, or the process is killed *)
(* between two of them.                                                    *)
Handled(p, writes) ==
  \/ /\ page' = p
     /\ disk' = Last(<<disk>> \o writes)
     /\ UNCHANGED <<link, clean, used>>
  \/ /\ used.kills < MaxKills
     /\ \E i \in 1..(Len(writes) - 1) : disk' = writes[i]
     /\ page' = Closed
     /\ link' = FALSE
     /\ clean' = FALSE
     /\ used' = [used EXCEPT !.kills = @ + 1]

(* handleFrame: the oldest frame has arrived.                              *)
Arrives(kind) == link /\ down # <<>> /\ Head(down).kind = kind
Fed == [page EXCEPT !.fed = TRUE, !.sound = @ /\ page.fit]
Receive(p, writes) ==
  /\ Handled(p, writes)
  /\ down' = IF page'.open THEN Tail(down) ELSE <<>>
  /\ UNCHANGED last

OnOutput == Arrives("output") /\ Receive(PushPaint(Fed, Head(down).n), <<>>)

OnReplaying ==
  /\ Arrives("replaying")
  /\ Receive([Fed EXCEPT !.replaying = TRUE, !.batches = <<>>, !.scheduled = FALSE,
                         !.swap = TRUE], <<>>)

OnReplayChunk ==
  /\ Arrives("replay")
  /\ Receive([Fed EXCEPT !.batches = Append(@, Head(down).n)], <<>>)

OnReplayCompleted ==
  /\ Arrives("replayCompleted")
  /\ LET p == [Fed EXCEPT !.replaying = FALSE, !.swap = TRUE]
     IN Receive(Settle(p), SwapWrites(p, disk))

(* A delta from 0 is the whole stream and starts on a clean screen.        *)
OnDeltaStart ==
  /\ Arrives("replayDeltaStart")
  /\ Receive([Fed EXCEPT !.replaying = TRUE, !.parts = <<>>,
                         !.screen = IF page.since = 0 THEN <<>> ELSE @], <<>>)

OnDeltaChunk ==
  /\ Arrives("replayDelta")
  /\ LET n == Head(down).n
     IN Receive(PushPaint([Fed EXCEPT !.parts = Append(@, n)], n), <<>>)

OnDeltaCompleted ==
  /\ Arrives("replayDeltaCompleted")
  /\ LET p == [Fed EXCEPT !.replaying = FALSE, !.parts = <<>>]
         commit == CommitDelta(disk, page.parts, Head(down).n)
     IN Receive(Settle(p), commit \o SwapWrites(p, Last(commit)))

(* The webview is up: the cache is painted, and a fit is scheduled ...     *)
InputReady ==
  /\ page.open /\ ~page.ready
  /\ page' = [page EXCEPT !.ready = TRUE, !.screen = @ \o Painted(Load(disk)),
                          !.sound = @ /\ Glued(Load(disk)) = {}]
  /\ UNCHANGED <<last, down, link, disk, clean, used>>

(* ... which settles what has arrived meanwhile.                           *)
InitialFit ==
  /\ page.ready /\ ~page.fit
  /\ LET p == [page EXCEPT !.fit = TRUE] IN Handled(Settle(p), SwapWrites(p, disk))
  /\ down' = IF page'.open THEN down ELSE <<>>
  /\ UNCHANGED last

(* A timer that pushPaint started goes off, whatever has happened since.   *)
FlushTimer ==
  /\ page.timers > 0
  /\ page' = FlushBatch([page EXCEPT !.timers = @ - 1])
  /\ UNCHANGED <<last, down, link, disk, clean, used>>

AboutToAppear ==
  /\ ~page.open
  /\ used.pages < MaxPages
  /\ page' = [Closed EXCEPT !.open = TRUE, !.since = disk.seq]
  /\ used' = [used EXCEPT !.pages = @ + 1]
  /\ UNCHANGED <<last, down, link, disk, clean>>

AboutToDisappear ==
  /\ page.open
  /\ page' = Closed
  /\ link' = FALSE
  /\ down' = <<>>
  /\ UNCHANGED <<last, disk, clean, used>>

-----------------------------------------------------------------------------
(* The worker's scrollback buffer, and the connection to it.               *)

Oldest == Max({1, last - Retain + 1})

(* Append, and the pump that sends the chunk to an attached page.          *)
PrintChunk ==
  /\ last < MaxOut
  /\ last' = last + 1
  /\ down' = IF link THEN Append(down, [kind |-> "output", n |-> last + 1]) ELSE down
  /\ UNCHANGED <<link, page, disk, clean, used>>

Frames(first, kind, cs, end) ==
  <<[kind |-> first, n |-> 0]>> \o [i \in DOMAIN cs |-> [kind |-> kind, n |-> cs[i]]]
  \o <<[kind |-> end, n |-> last]>>

Gap(since) == since + 1 < Oldest \/ since > last

(* CreateDelta, and how the hub presents it to the page.                   *)
Answer(since) ==
  LET items == Upward(Max({since + 1, Oldest}), last)
  IN IF Gap(since) THEN Frames("replaying", "replay", items, "replayCompleted")
     ELSE Frames("replayDeltaStart", "replayDelta", items, "replayDeltaCompleted")

(* The request for a delta failed: the whole buffer, or nothing.           *)
Fallbacks == {Frames("replaying", "replay", cs, "replayCompleted") :
                cs \in {Upward(Oldest, last), <<>>}}

(* transport.connect, retryConnection and the automatic reconnect: each    *)
(* asks with the cursor that the page read when it was opened.             *)
Reattach ==
  /\ page.open /\ ~link
  /\ used.links < MaxLinks
  /\ link' = TRUE
  /\ \/ /\ down' = Answer(page.since)
        /\ clean' = (clean /\ ~page.fed)
        /\ used' = [used EXCEPT !.links = @ + 1]
     \/ /\ used.fails < MaxFails
        /\ down' \in Fallbacks
        /\ clean' = FALSE
        /\ used' = [used EXCEPT !.links = @ + 1, !.fails = @ + 1]
  /\ UNCHANGED <<last, page, disk>>

Drop ==
  /\ link
  /\ link' = FALSE
  /\ down' = <<>>
  /\ UNCHANGED <<last, page, disk, clean, used>>

-----------------------------------------------------------------------------
Next ==
  \/ OnOutput
  \/ OnReplaying
  \/ OnReplayChunk
  \/ OnReplayCompleted
  \/ OnDeltaStart
  \/ OnDeltaChunk
  \/ OnDeltaCompleted
  \/ InputReady
  \/ InitialFit
  \/ FlushTimer
  \/ AboutToAppear
  \/ AboutToDisappear
  \/ PrintChunk
  \/ Reattach
  \/ Drop

(* Timers go off.                                                          *)
Fairness == WF_vars(FlushTimer)

Spec == Init /\ [][Next]_vars /\ Fairness

-----------------------------------------------------------------------------
(* Properties.                                                             *)

Kinds == {"output", "replaying", "replay", "replayCompleted",
          "replayDeltaStart", "replayDelta", "replayDeltaCompleted"}

TypeOK ==
  /\ last \in 0..MaxOut
  /\ down \in Seq([kind : Kinds, n : 0..MaxOut])
  /\ link \in BOOLEAN
  /\ page.since \in 0..MaxOut
  /\ {page.batches, page.parts, page.screen} \subseteq Seq(1..MaxOut)
  /\ page.timers \in 0..(MaxOut * MaxLinks)
  /\ page.scheduled => page.timers > 0
  /\ disk \in [bin : Seq(0..MaxOut), seq : 0..MaxOut, bytes : Nat]

Contiguous(cs) == \A i \in 1..(Len(cs) - 1) : cs[i + 1] = cs[i] + 1

(* The frames of the counted prefix are the stream up to the cursor, each  *)
(* chunk once, so that a delta from the cursor continues them - through    *)
(* commits, full replays, trims, broken connections and reopened pages,    *)
(* as long as no process was killed inside a commit, no request to the     *)
(* worker failed and no page asked twice with the same cursor.             *)
CacheHoldsStream ==
  clean => LET held == Chunks(Load(disk))
           IN /\ Contiguous(held)
              /\ disk.seq > 0 => held # <<>> /\ Last(held) = disk.seq

(* What a page shows is the stream without a gap or a repetition, and all  *)
(* of it once everything has arrived: under the same conditions, if the    *)
(* webview was up before the first frame came and the cache could be       *)
(* painted.                                                                *)
Settled(p) == p.fit /\ p.fed /\ ~p.replaying /\ p.batches = <<>>

ScreenShowsStream ==
  clean /\ page.sound /\ Settled(page) =>
    /\ Contiguous(page.screen)
    /\ link /\ down = <<>> /\ last > 0 => page.screen # <<>> /\ Last(page.screen) = last

(* Output that waits for the next batch is painted, whatever replays,      *)
(* broken connections and late timers came in between.                     *)
QueuedIsPainted ==
  (page.fit /\ ~page.replaying /\ page.batches # <<>>)
    ~> (page.batches = <<>> \/ page.replaying)

(* TerminalCache.ets:10-14: the bin is the frames joined with '|', the     *)
(* packing that writeBatchedOutput consumes, and its counted part the      *)
(* stream through the cursor: painting it shows that stream.               *)
CachePaintsStream ==
  clean /\ disk.seq > 0 => LET shown == Painted(Load(disk))
                           IN shown # <<>> /\ Last(shown) = disk.seq
=============================================================================

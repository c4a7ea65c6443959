-------------------------------- MODULE Xmi --------------------------------
(***************************************************************************)
(* src/ext/xmi2mid.c: an XMIDI file, as the games' GSEQ, PSEQ, CSEQ and    *)
(* LSEQ chunks hold it, becomes a MIDI file.  The converter walks the      *)
(* chunks of the file, turns the events of each EVNT chunk into a list     *)
(* sorted by time, and writes every list as a track.  An XMIDI note names  *)
(* its duration, a MIDI note needs an event that ends it, so reading one   *)
(* note puts one event at the cursor of the list and one far behind it.    *)
(* A file is a sequence of bytes and a position counts from zero, as the   *)
(* pointers do.  Lengths and positions have 32 bits, and a chunk's length  *)
(* is not compared with the file: one of 2^31 and more moves back.  They   *)
(* are written as the signed numbers of the same bits here, so that one    *)
(* behind 2^31 is negative.                                                *)
(***************************************************************************)
EXTENDS Integers, Sequences, FiniteSetsExt

CONSTANTS
    Files,          \* the files: records with the field bytes
    Conversions,    \* the conversion types of xmi2mid.h a caller asks for
    DstChunk        \* DST_CHUNK: the step by which the output grows

Byte == 0 .. 255

ASSUME FilesAssumption == \A f \in Files : f.bytes \in Seq(Byte)
ASSUME ConversionsAssumption == Conversions \subseteq 0 .. 5
ASSUME DstChunkAssumption == DstChunk \in Nat /\ DstChunk >= 14

(* XMIDI_CONVERT_...; the three above these are refused, and the code that *)
(* would serve them is never reached.                                      *)
NOCONVERSION == 0
MT32_TO_GM == 1
MT32_TO_GS == 2

Drums == 9                  \* the percussion channel
BankSelect == 0             \* a controller
Tempo == 81                 \* 0x51, a meta event
EndOfTrack == 47            \* 0x2F, a meta event

FORM == <<70, 79, 82, 77>>
XDIR == <<88, 68, 73, 82>>
INFO == <<73, 78, 70, 79>>
CAT == <<67, 65, 84, 32>>
XMID == <<88, 77, 73, 68>>
EVNT == <<69, 86, 78, 84>>

(* The General MIDI program for each program of an MT32; for GS the same   *)
(* programs, each in bank 0.                                               *)
mt32 == <<0, 1, 2, 4, 4, 5, 5, 3, 16, 17, 18, 16, 19, 19, 19, 21, 6, 6, 6, 7,
          7, 7, 8, 8, 62, 63, 62, 63, 38, 39, 38, 39, 88, 90, 52, 92, 97, 99,
          14, 54, 98, 96, 68, 95, 81, 87, 112, 80, 48, 48, 44, 45, 40, 40, 42,
          42, 43, 46, 46, 24, 25, 26, 27, 104, 32, 32, 33, 34, 36, 37, 35, 35,
          73, 73, 72, 72, 74, 75, 64, 65, 66, 67, 71, 71, 68, 69, 70, 22, 56,
          56, 57, 57, 60, 60, 58, 61, 61, 11, 11, 99, 112, 9, 14, 13, 12, 107,
          111, 77, 78, 78, 76, 76, 47, 117, 116, 118, 118, 116, 115, 119, 115,
          112, 55, 124, 123, 94, 98, 121>>
mt32asgm(p) == mt32[p + 1]
mt32asgs(p) == [program |-> mt32[p + 1], bank |-> 0]

------------------------------------------------------------------------------
VARIABLES
    file, convert_type,     \* what the caller passes
    pc,         \* "form", "xdir", "cat", "chunk", "event", "mtrk", "write" or
                \* an end: "done", "refused", "outside"
    pos,        \* src_ptr - src
    dir,        \* ParseXMI: where the XDIR form starts, its length, i
    tracks,     \* info.tracks
    next,       \* where the chunk behind the EVNT chunk starts
    line,       \* the list of the track that is read, and its cursor
    clock,      \* its time, tempo, whether a tempo was seen, and its end
    lists,      \* ctx.events: the lists of the tracks read so far
    timing,     \* their ticks per quarter note
    dst,        \* the output: bytes, dst_ptr, dstsize and dstrem
    mtrk        \* the track that is written and how far

vars == <<file, convert_type, pc, pos, dir, tracks, next, line, clock, lists,
          timing, dst, mtrk>>
reading == <<line, clock>>
writing == <<dst, mtrk>>

src == file.bytes
At(p) == IF p \in 0 .. Len(src) - 1 THEN src[p + 1] ELSE 0     \* read1
Tag(p) == <<At(p), At(p + 1), At(p + 2), At(p + 3)>>
read2(p) == At(p) + 256 * At(p + 1)

(* Numbers of 32 bits: their sum, and which is less as unsigned ones.      *)
MaxInt == 2147483647
Add(a, b) ==
    IF a > 0 /\ b > MaxInt - a THEN (a - MaxInt - 1) + (b - MaxInt - 1)
    ELSE IF a < 0 /\ b < -MaxInt - 1 - a THEN (a + MaxInt + 1) + (b + MaxInt + 1)
    ELSE a + b
Less(a, b) == IF (a < 0) = (b < 0) THEN a < b ELSE b < 0

read4(p) ==
    LET high == IF At(p) > 127 THEN At(p) - 256 ELSE At(p)
    IN  16777216 * high + 65536 * At(p + 1) + 256 * At(p + 2) + At(p + 3)
Aligned(n) == IF n % 2 = 0 THEN n ELSE Add(n, 1)    \* (n + 1) & ~1
Inside(p) == p >= 0 /\ p < Len(src)                 \* getsrcpos < getsrcsize
TooShort(p, n) == Add(p, n) \notin 0 .. Len(src)    \* getsrcpos + n > file_size

(* GetVLQ: seven bits a byte, the last one below 128, at most four.        *)
VlqLen(p) == Min({k \in 1 .. 4 : At(p + k - 1) < 128} \cup {4})
Vlq(p) ==
    LET b(k) == At(p + k - 1) % 128
        n == VlqLen(p)
    IN  CASE n = 1 -> b(1)
          [] n = 2 -> 128 * b(1) + b(2)
          [] n = 3 -> 16384 * b(1) + 128 * b(2) + b(3)
          [] OTHER -> 2097152 * b(1) + 16384 * b(2) + 128 * b(3) + b(4)

------------------------------------------------------------------------------
(* CreateNewEvent: the cursor moves on to the last event that is not later *)
(* than the new one, which goes behind it.                                 *)
NoEvents == [list |-> <<>>, current |-> 0]

Behind(l, t) ==
    LET from == IF l.list[l.current].time > t THEN 1 ELSE l.current
    IN  Min({k \in from .. Len(l.list) :
               k = Len(l.list) \/ l.list[k + 1].time > t})

(* Mutant: events are appended.                                            *)
AppendEvent(l, e) == [list |-> Append(l.list, e), current |-> Len(l.list) + 1]

CreateNewEvent(l, e) ==
    IF l.list = <<>> THEN [list |-> <<e>>, current |-> 1]
    ELSE LET at == Behind(l, e.time) + 1
         IN  [list |-> [k \in 1 .. Len(l.list) + 1 |->
                          IF k < at THEN l.list[k]
                          ELSE IF k = at THEN e ELSE l.list[k - 1]],
              current |-> at]

Event(t, msg) == [time |-> t, msg |-> msg]

(* ConvertEvent: the messages one channel message becomes.                 *)
Class(status) == status \div 16
Channel(status) == status % 16

BankChange(msg) == Class(msg[1]) = 11 /\ msg[2] = BankSelect
Bank(ch, n) == <<176 + ch, BankSelect, n>>

Patch(msg) ==
    CASE Channel(msg[1]) = Drums -> msg
      [] convert_type = MT32_TO_GM -> <<msg[1], mt32asgm(msg[2])>>
      [] convert_type = MT32_TO_GS -> <<msg[1], mt32asgs(msg[2]).program>>
      [] OTHER -> msg

(* An MT32's own bank changes are dropped, a program for GS names a bank.  *)
DropsBank(msg) == BankChange(msg) /\ convert_type # NOCONVERSION
NamesBank(msg) ==
    Class(msg[1]) = 12 /\ Channel(msg[1]) # Drums /\ convert_type = MT32_TO_GS
Converted(msg) == IF Class(msg[1]) = 12 THEN Patch(msg) ELSE msg

Named(l, t, msg) ==
    IF NamesBank(msg)
    THEN CreateNewEvent(l, Event(t, Bank(Channel(msg[1]), mt32asgs(msg[2]).bank)))
    ELSE l

ConvertEvent(t, msg) ==
    line' = IF DropsBank(msg) THEN line
            ELSE CreateNewEvent(Named(line, t, msg), Event(t, Converted(msg)))

(* A note: its end goes into the list too, and the cursor stays on the     *)
(* note.                                                                   *)
Release(t, msg) == Event(t, <<msg[1], msg[2], 0>>)

ConvertNote(t, msg, len) ==
    LET on == CreateNewEvent(line, Event(t, msg))
    IN  line' = [list |-> CreateNewEvent(on, Release(t + 3 * len, msg)).list,
                 current |-> on.current]

(* ConvertSystemMessage: a meta event keeps its type, then a length and as *)
(* many bytes.                                                             *)
MetaLen(p) == VlqLen(p) + Vlq(p)        \* bytes from the length on
SystemLen(status, p) == IF status = 255 THEN 1 + MetaLen(p + 1) ELSE MetaLen(p)

Bytes(p, n) == [k \in 1 .. n |-> At(p + k - 1)]

SystemMessage(status, p) ==
    IF status = 255
    THEN <<status, At(p)>> \o Bytes(p + 1 + VlqLen(p + 1), Vlq(p + 1))
    ELSE <<status>> \o Bytes(p + VlqLen(p), Vlq(p))

------------------------------------------------------------------------------
(* _WM_xmi2midi and ParseXMI.                                              *)
Init ==
    /\ file \in Files /\ convert_type \in Conversions
    /\ pc = "form" /\ pos = 0
    /\ dir = [start |-> 0, len |-> 0, i |-> 0]
    /\ tracks = 0 /\ next = 0
    /\ line = NoEvents
    /\ clock = [time |-> 0, tempo |-> 500000, tempo_set |-> FALSE, end |-> FALSE]
    /\ lists = <<>> /\ timing = <<>>
    /\ dst = [bytes |-> <<>>, ptr |-> 0, size |-> 0, rem |-> 0]
    /\ mtrk = [track |-> 0, event |-> 0, time |-> 0, status |-> 0, i |-> 0,
               size_pos |-> 0]

Refuse ==
    /\ pc' = "refused"
    /\ UNCHANGED <<pos, dir, tracks, next, reading, lists, timing, writing>>

IsXdir == Len(src) >= 12 /\ Tag(0) = FORM /\ Tag(8) = XDIR

(* A form of type XMID that has no directory is set up with one track, and *)
(* then refused with the forms of every other type.                        *)
ReadForm ==
    /\ pc = "form"
    /\ IF convert_type <= MT32_TO_GS /\ IsXdir
       THEN /\ pc' = "xdir" /\ pos' = 12
            /\ dir' = [start |-> 8, len |-> read4(4), i |-> 4]
            /\ UNCHANGED <<tracks, next, reading, lists, timing, writing>>
       ELSE Refuse
    /\ UNCHANGED <<file, convert_type>>

ToCat ==
    /\ pc' = "cat" /\ pos' = Add(dir.start, Aligned(dir.len))
    /\ UNCHANGED <<dir, next, reading, lists, timing, writing>>

(* The code looks at how much of the file is left, not at whether a skip   *)
(* has led in front of it: there a sum of unsigned numbers is small again. *)
(* What is read outside the file, and what it leads to, is not followed.   *)
XdirOutside == Less(dir.i, dir.len) /\ ~TooShort(pos, 10) /\ pos < 0
CatOutside == ~TooShort(pos, 12) /\ pos < 0

ReadOutside ==
    /\ pc' = "outside"
    /\ UNCHANGED <<file, convert_type, pos, dir, tracks, next, reading, lists,
                   timing, writing>>

(* The chunks of the directory, until one says how many tracks there are.  *)
ReadXdir ==
    /\ pc = "xdir" /\ ~XdirOutside
    /\ LET chunk_len == read4(pos + 4)
       IN  IF ~Less(dir.i, dir.len) \/ TooShort(pos, 10)
                \/ (Tag(pos) = INFO /\ chunk_len \in {0, 1})
           THEN Refuse
           ELSE IF Tag(pos) # INFO
           THEN /\ pos' = Add(pos + 8, Aligned(chunk_len))
                /\ dir' = [dir EXCEPT !.i = Add(@, Add(9, Aligned(chunk_len)))]
                /\ UNCHANGED <<pc, tracks, next, reading, lists, timing, writing>>
           ELSE IF read2(pos + 8) = 0 THEN Refuse
           ELSE ToCat /\ tracks' = read2(pos + 8)
    /\ UNCHANGED <<file, convert_type>>

(* Mutant: the catalogue may be of any type.                               *)
IsAnyCat == ~TooShort(pos, 12) /\ Tag(pos) = CAT
IsCat == ~TooShort(pos, 12) /\ Tag(pos) = CAT /\ Tag(pos + 8) = XMID

ReadCat ==
    /\ pc = "cat" /\ ~CatOutside
    /\ IF IsCat
       THEN /\ pc' = "chunk" /\ pos' = pos + 12
            /\ UNCHANGED <<dir, tracks, next, reading, lists, timing, writing>>
       ELSE Refuse
    /\ UNCHANGED <<file, convert_type>>

------------------------------------------------------------------------------
(* ExtractTracksFromXmi and ConvertFiletoList.                             *)
MoreChunks == Inside(pos) /\ Len(lists) # tracks

(* A form of the catalogue is entered.  The header of a chunk is read      *)
(* without a look at the end of the file.                                  *)
ChunkAt == IF Tag(pos) = FORM THEN pos + 12 ELSE pos
ChunkOutside == ChunkAt + 8 > Len(src)

StartTrack(p, len) ==
    /\ pc' = "event" /\ pos' = p
    /\ next' = Add(p, Aligned(len))
    /\ line' = NoEvents
    /\ clock' = [time |-> 0, tempo |-> 500000, tempo_set |-> FALSE,
                 end |-> FALSE]
    /\ UNCHANGED <<dir, tracks, lists, timing, writing>>

(* Mutant: a chunk is not passed.                                          *)
SkipNothing(p) == p
Skip(p) == Add(p + 8, Aligned(read4(p + 4)))

(* Any other chunk but EVNT is skipped.                                    *)
ReadChunk ==
    /\ pc = "chunk" /\ MoreChunks /\ ~ChunkOutside
    /\ IF Tag(ChunkAt) = EVNT THEN StartTrack(ChunkAt + 8, read4(ChunkAt + 4))
       ELSE /\ pos' = Skip(ChunkAt)
            /\ UNCHANGED <<pc, dir, tracks, next, reading, lists, timing, writing>>
    /\ UNCHANGED <<file, convert_type>>

EventRead(p) ==
    /\ pos' = p
    /\ UNCHANGED <<file, convert_type, pc, dir, tracks, next, lists, timing,
                   writing>>

(* The status of the event and where its data starts.                      *)
Status == At(pos)
Data == pos + 1

IsTempo == Status = 255 /\ At(Data) = Tempo
SetsTempo == IsTempo /\ ~clock.tempo_set
SkipsTempo == IsTempo /\ clock.tempo_set

(* Behind the last byte that is read for the event at pos.  Behind a delay *)
(* a status is read, whether the file goes on or not; the bytes of a tempo *)
(* are read before its length.                                             *)
EventEnd ==
    CASE Status < 128 -> pos + 2
      [] Class(Status) = 9 -> Data + 2 + VlqLen(Data + 2)
      [] Class(Status) \in {12, 13} -> Data + 1
      [] Class(Status) \in {8, 10, 11, 14} -> Data + 2
      [] SkipsTempo -> Data + 1 + VlqLen(Data + 1)
      [] SetsTempo -> Max({Data + 5, Data + SystemLen(Status, Data)})
      [] OTHER -> Data + SystemLen(Status, Data)

(* A program behind the end of the table of programs.                      *)
NoSuchProgram ==
    /\ Class(Status) = 12 /\ Channel(Status) # Drums
    /\ convert_type # NOCONVERSION /\ At(Data) > 127

MoreEvents == ~clock.end /\ Inside(pos)
EventOutside == EventEnd > Len(src) \/ NoSuchProgram
IsEvent == pc = "event" /\ MoreEvents /\ ~EventOutside

(* GetVLQ2: the delay before an event is the sum of the bytes below 128    *)
(* in front of it; one turn of its loop.                                   *)
ReadDelay ==
    /\ IsEvent /\ At(pos) < 128
    /\ clock' = [clock EXCEPT !.time = @ + 3 * At(pos)]
    /\ EventRead(pos + 1) /\ UNCHANGED line

ReadNote ==
    /\ IsEvent /\ Class(Status) = 9
    /\ ConvertNote(clock.time, <<Status, At(Data), At(Data + 1)>>, Vlq(Data + 2))
    /\ UNCHANGED clock
    /\ EventRead(Data + 2 + VlqLen(Data + 2))

ReadMessage ==
    /\ IsEvent /\ Class(Status) \in {8, 10, 11, 12, 13, 14}
    /\ LET n == IF Class(Status) \in {12, 13} THEN 1 ELSE 2
       IN  /\ ConvertEvent(clock.time, <<Status>> \o Bytes(Data, n))
           /\ UNCHANGED clock
           /\ EventRead(Data + n)

(* The first tempo sets the clock of the track; the file's times do not    *)
(* depend on tempo, so later ones are left out.                            *)
TempoAt(p) == 65536 * At(p) + 256 * At(p + 1) + At(p + 2)

(* Mutant: the tempo is not counted in thirds of a tick.                   *)
ClockOfTicks ==
    [time |-> clock.time,
     tempo |-> IF SetsTempo THEN TempoAt(Data + 2) ELSE clock.tempo,
     tempo_set |-> clock.tempo_set \/ IsTempo,
     end |-> Status = 255 /\ At(Data) = EndOfTrack]

ClockAfter ==
    [time |-> clock.time,
     tempo |-> IF SetsTempo THEN 3 * TempoAt(Data + 2) ELSE clock.tempo,
     tempo_set |-> clock.tempo_set \/ IsTempo,
     end |-> Status = 255 /\ At(Data) = EndOfTrack]

ReadSystem ==
    /\ IsEvent /\ Class(Status) = 15
    /\ clock' = ClockAfter
    /\ line' = IF SkipsTempo THEN line
               ELSE CreateNewEvent(line, Event(clock.time, SystemMessage(Status, Data)))
    /\ EventRead(Data + SystemLen(Status, Data))

(* Ticks per quarter note, for a clock of 120 ticks a second times three.  *)
Ppqn == (clock.tempo * 3) \div 25000

EndTrack ==
    /\ pc = "event" /\ ~MoreEvents
    /\ IF Ppqn = 0 THEN Refuse
       ELSE /\ pc' = "chunk" /\ pos' = next
            /\ lists' = Append(lists, line.list)
            /\ timing' = Append(timing, Ppqn)
            /\ UNCHANGED <<dir, tracks, next, reading, writing>>
    /\ UNCHANGED <<file, convert_type>>

------------------------------------------------------------------------------
(* The output grows by DST_CHUNK when what is left of it is too short.     *)
Grow(d, n) ==
    LET k == IF n <= d.rem THEN 0
             ELSE (n - d.rem + DstChunk - 1) \div DstChunk
    IN  [d EXCEPT !.size = @ + k * DstChunk, !.rem = @ + k * DstChunk]

(* write1, write2, write4.                                                 *)
Put(d, bs) ==
    LET n == Len(bs)
        g == Grow(d, n)
    IN  [bytes |-> SubSeq(d.bytes, 1, d.ptr) \o bs
                     \o SubSeq(d.bytes, d.ptr + n + 1, Len(d.bytes)),
         ptr |-> d.ptr + n, size |-> g.size, rem |-> g.rem - n]

seekdst(d, p) == [d EXCEPT !.ptr = p, !.rem = d.size - p]

(* What skipdst leaves behind is whatever malloc left there.               *)
Unset == [k \in 1 .. 4 |-> 0]
skipdst(d) == Put(d, Unset)

Big2(n) == <<n \div 256, n % 256>>
Big4(n) == Big2(n \div 65536) \o Big2(n % 65536)

PutVLQ(v) ==
    LET n == Min({k \in 1 .. 4 : v < 128 ^ k})
    IN  [k \in 1 .. n |-> ((v \div 128 ^ (n - k)) % 128) + (IF k < n THEN 128 ELSE 0)]

MThd == <<77, 84, 104, 100>>
MTrk == <<77, 84, 114, 107>>

(* A file of several tracks has type 2, and the division of its first one. *)
WriteHeader ==
    /\ pc = "chunk" /\ ~MoreChunks
    /\ IF Len(lists) # tracks THEN Refuse
       ELSE /\ pc' = "mtrk"
            /\ dst' = Put([bytes |-> <<>>, ptr |-> 0, size |-> DstChunk,
                           rem |-> DstChunk],
                          MThd \o Big4(6) \o Big2(IF tracks > 1 THEN 2 ELSE 0)
                            \o Big2(tracks) \o Big2(timing[1]))
            /\ UNCHANGED <<pos, dir, tracks, next, reading, lists, timing, mtrk>>
    /\ UNCHANGED <<file, convert_type>>

Written ==
    UNCHANGED <<file, convert_type, pos, dir, tracks, next, reading, lists, timing>>

(* ConvertListToMTrk.                                                      *)
StartMTrk ==
    /\ pc = "mtrk" /\ mtrk.track < tracks
    /\ pc' = "write"
    /\ dst' = skipdst(Put(dst, MTrk))
    /\ mtrk' = [track |-> mtrk.track + 1, event |-> 0, time |-> 0, status |-> 0,
                i |-> 8, size_pos |-> dst.ptr + 4]
    /\ Written

Events == lists[mtrk.track]
IsEnd(msg) == msg[1] = 255 /\ msg[2] = EndOfTrack
Unwritten ==
    /\ mtrk.event < Len(Events)
    /\ mtrk.event > 0 => ~IsEnd(Events[mtrk.event].msg)

Body(msg) ==
    CASE msg[1] = 255 ->
           <<msg[2]>> \o PutVLQ(Len(msg) - 2) \o SubSeq(msg, 3, Len(msg))
      [] msg[1] \in 240 .. 254 -> PutVLQ(Len(msg) - 1) \o Tail(msg)
      [] OTHER -> Tail(msg)

(* Mutant: any status may run on.                                          *)
RunsAlways(status) == status = mtrk.status

(* A status that is that of the event before it is not written again.      *)
Runs(status) == status = mtrk.status /\ status < 240

WriteEvent ==
    /\ pc = "write" /\ Unwritten
    /\ LET e == Events[mtrk.event + 1]
           status == e.msg[1]
           bs == PutVLQ(e.time - mtrk.time)
                   \o (IF Runs(status) THEN <<>> ELSE <<status>>) \o Body(e.msg)
       IN  /\ dst' = Put(dst, bs)
           /\ mtrk' = [mtrk EXCEPT !.event = @ + 1, !.time = e.time,
                                   !.status = status, !.i = @ + Len(bs)]
    /\ UNCHANGED pc /\ Written

(* The length of the track is written where it was left open.              *)
EndMTrk ==
    /\ pc = "write" /\ ~Unwritten
    /\ pc' = "mtrk"
    /\ dst' = seekdst(Put(seekdst(dst, mtrk.size_pos), Big4(mtrk.i - 8)), dst.ptr)
    /\ UNCHANGED mtrk /\ Written

Finish ==
    /\ pc = "mtrk" /\ mtrk.track = tracks
    /\ pc' = "done"
    /\ UNCHANGED writing /\ Written

(* *outsize.                                                               *)
outsize == dst.size - dst.rem

GoOutside ==
    /\ \/ pc = "xdir" /\ XdirOutside
       \/ pc = "cat" /\ CatOutside
       \/ pc = "chunk" /\ MoreChunks /\ ChunkOutside
       \/ pc = "event" /\ MoreEvents /\ EventOutside
    /\ ReadOutside

Next ==
    \/ GoOutside
    \/ ReadForm \/ ReadXdir \/ ReadCat \/ ReadChunk
    \/ ReadDelay \/ ReadNote \/ ReadMessage \/ ReadSystem \/ EndTrack
    \/ WriteHeader \/ StartMTrk \/ WriteEvent \/ EndMTrk \/ Finish

(* The converter is one thread that runs until it returns.                 *)
Spec == Init /\ [][Next]_vars /\ WF_vars(Next)

------------------------------------------------------------------------------
Sorted(l) == \A j, k \in DOMAIN l : j < k => l[j].time <= l[k].time

(* CreateNewEvent searches from its cursor, not from the head, puts an     *)
(* event that is earlier than all others second, and goes back to the      *)
(* cursor of a note after it has put the note's end far behind it.  Still  *)
(* every list is sorted at every step, because the cursor's event is never *)
(* later than the clock.                                                   *)
ListInOrder ==
    /\ Sorted(line.list)
    /\ line.list # <<>> => /\ line.current \in DOMAIN line.list
                           /\ line.list[line.current].time <= clock.time
    /\ \A n \in DOMAIN lists : Sorted(lists[n])

(* The walk is at a chunk that it skips, and whose length leads back.      *)
GoesBack ==
    \/ pc = "xdir" /\ Tag(pos) # INFO /\ read4(pos + 4) < 0
    \/ pc = "chunk" /\ Tag(ChunkAt) # EVNT /\ read4(ChunkAt + 4) < 0

(* Whatever the file holds the conversion ends, as every loop reads on,    *)
(* unless it comes again and again to a chunk that is skipped and whose    *)
(* length is 2^31 or more: one of 0xFFFFFFF8 leads to itself, for ever.    *)
(* The length of a track may lead back too, but tracks are counted.        *)
Ends == <>(pc \in {"done", "refused", "outside"}) \/ []<>GoesBack
============================================================================

------------------------------ MODULE XmiSong ------------------------------
(***************************************************************************)
(* What a converted song has to sound like, for Xmi.  A song is a sequence *)
(* of tracks, a track a sequence of events: how many ticks of 1/120 second *)
(* after the event before, the message, and for a note how long it sounds. *)
(* A file holds a song as XMIDI bytes; the output is read as a MIDI player *)
(* reads it and compared with the song.  Only TLC uses this module.        *)
(***************************************************************************)
EXTENDS Xmi, SequencesExt

(* The messages of a song under a conversion, in the order of the song:    *)
(* the file's own definition of what a program becomes.                    *)
Program(ch, p) ==
    CASE convert_type = MT32_TO_GM -> <<<<192 + ch, mt32[p + 1]>>>>
      [] convert_type = MT32_TO_GS -> <<<<176 + ch, 0, 0>>, <<192 + ch, mt32[p + 1]>>>>
      [] OTHER -> <<<<192 + ch, p>>>>

IsNote(msg) == msg[1] \in 144 .. 159
IsProgram(msg) == msg[1] \in 192 .. 207
IsBank(msg) == msg[1] \in 176 .. 191 /\ msg[2] = 0
IsTempoMsg(msg) == msg[1] = 255 /\ msg[2] = Tempo

Sounds(track, n) ==
    LET msg == track[n].msg
    IN  CASE IsProgram(msg) /\ msg[1] # 201 -> Program(msg[1] - 192, msg[2])
          [] IsBank(msg) /\ convert_type # NOCONVERSION -> <<>>
          [] IsTempoMsg(msg) /\ (\E k \in 1 .. n - 1 : IsTempoMsg(track[k].msg)) -> <<>>
          [] OTHER -> <<msg>>

StartOf(track, n) == 3 * MapThenSumSet(LAMBDA k : track[k].delay, 1 .. n)

AllOf(track, n) ==
    LET t == StartOf(track, n)
        msg == track[n].msg
        on == [k \in DOMAIN Sounds(track, n) |-> Event(t, Sounds(track, n)[k])]
    IN  IF IsNote(msg)
        THEN Append(on, Event(t + 3 * track[n].hold, <<msg[1], msg[2], 0>>))
        ELSE on

(* All events by their time, those of the same time as the song has them.  *)
InTime(evs) ==
    LET rank(k) == Cardinality({j \in DOMAIN evs :
                       \/ evs[j].time < evs[k].time
                       \/ evs[j].time = evs[k].time /\ j <= k})
    IN  [r \in DOMAIN evs |-> evs[CHOOSE k \in DOMAIN evs : rank(k) = r]]

(* Nothing is played behind the end mark.                                  *)
UpToEnd(evs) ==
    LET ends == {k \in DOMAIN evs : IsEnd(evs[k].msg)}
    IN  IF ends = {} THEN evs ELSE SubSeq(evs, 1, Min(ends))

Score(track) == UpToEnd(InTime(FlattenSeq([n \in DOMAIN track |-> AllOf(track, n)])))

------------------------------------------------------------------------------
(* A MIDI player.  Bytes it cannot read become the message "noise".        *)
NumLen(bs) == Min({k \in DOMAIN bs : bs[k] < 128} \cup {Len(bs)})
Num(bs) == FoldLeft(LAMBDA v, b : 128 * v + (b % 128), 0, SubSeq(bs, 1, NumLen(bs)))
From(bs, k) == SubSeq(bs, k, Len(bs))

(* Of the bytes behind a status: how many belong to the message, and it.   *)
Message(s, bs) ==
    CASE s \in 128 .. 191 \cup 224 .. 239 ->
           [len |-> 2, msg |-> <<s>> \o SubSeq(bs, 1, 2)]
      [] s \in 192 .. 223 -> [len |-> 1, msg |-> <<s, bs[1]>>]
      [] s = 255 ->
           LET b == From(bs, 2)
           IN  [len |-> 1 + NumLen(b) + Num(b),
                msg |-> <<s, bs[1]>> \o SubSeq(b, NumLen(b) + 1, NumLen(b) + Num(b))]
      [] s \in 240 .. 254 ->
           [len |-> NumLen(bs) + Num(bs),
            msg |-> <<s>> \o SubSeq(bs, NumLen(bs) + 1, NumLen(bs) + Num(bs))]
      [] OTHER -> [len |-> Len(bs), msg |-> <<"noise">>]

RECURSIVE Played(_, _, _)
Played(bs, t, running) ==
    IF bs = <<>> THEN <<>>
    ELSE LET n == NumLen(bs)
             time == t + Num(bs)
             has == n < Len(bs) /\ bs[n + 1] >= 128
             s == IF has THEN bs[n + 1] ELSE running
             m == Message(s, From(bs, n + (IF has THEN 2 ELSE 1)))
         IN  <<Event(time, m.msg)>>
                \o Played(From(bs, n + (IF has THEN 2 ELSE 1) + m.len), time,
                          IF s < 240 THEN s ELSE 0)

Read4(bs) == 16777216 * bs[1] + 65536 * bs[2] + 256 * bs[3] + bs[4]

RECURSIVE PlayTracks(_)
PlayTracks(bs) ==
    IF bs = <<>> THEN <<>>
    ELSE IF Len(bs) < 8 \/ SubSeq(bs, 1, 4) # MTrk THEN <<"noise">>
    ELSE LET n == Read4(From(bs, 5))
         IN  IF n > Len(bs) - 8 THEN <<"noise">>
             ELSE <<Played(SubSeq(bs, 9, 8 + n), 0, 0)>> \o PlayTracks(From(bs, 9 + n))

Out == SubSeq(dst.bytes, 1, outsize)
Division == 256 * Out[13] + Out[14]

------------------------------------------------------------------------------
(* The output is the song: its header names as many tracks as follow, each *)
(* as long as it says, and a player hears every message at its time, every *)
(* note released after its duration, up to the end mark; outsize, which is *)
(* computed from what is left of the last piece of memory, is the number   *)
(* of bytes.  Delta times, running status, lengths patched in later and    *)
(* the merging of note ends all have to agree for this.                    *)
PlaysTheSong ==
    pc = "done" =>
      LET song == SubSeq(file.song, 1, tracks)
      IN  /\ outsize = Len(dst.bytes)
          /\ SubSeq(Out, 1, 8) = MThd \o <<0, 0, 0, 6>>
          /\ SubSeq(Out, 11, 12) = <<0, Len(song)>>
          /\ PlayTracks(From(Out, 15)) = [n \in DOMAIN song |-> Score(song[n])]

(* A tick of the file is 1/120 second and becomes three of the output.     *)
(* With the division the header names, and the one tempo its first track   *)
(* keeps, they last as long, to the rounding of the division: for a track  *)
(* that names its tempo.                                                   *)
PlaysInTempo ==
    LET tempos == {k \in DOMAIN lists[1] : IsTempoMsg(lists[1][k].msg)}
    IN  pc = "done" /\ file.kind = "whole" /\ (\E k \in DOMAIN file.song[1] : IsTempoMsg(file.song[1][k].msg))
        => /\ Cardinality(tempos) = 1
           /\ \A k \in tempos :
                 LET usec == Read4(<<0>> \o From(lists[1][k].msg, 3))
                 IN  (9 * usec) \in Division * 25000 .. (Division + 1) * 25000 - 1

(* A file that cannot be walked to the end of its tracks is refused, or    *)
(* read outside, as is the table of programs for a program it does not     *)
(* have.  Two kinds of request that could be served are refused too,       *)
(* against what the code and the README say: a form without a directory,   *)
(* though the parser says "XDIRless XMIDI, we can handle them here", and   *)
(* the conversions behind MT32_TO_GS, though the README offers             *)
(* XMIDI_CONVERT_GS127_TO_GS.  All other requests are served.              *)
RefusedForCause ==
    LET unserved == file.kind = "bare" \/ convert_type > MT32_TO_GS
        broken == \/ file.kind = "broken"
                  \/ file.kind = "foreign" /\ convert_type # NOCONVERSION
    IN  /\ pc = "refused" => broken \/ unserved
        /\ pc = "outside" => broken
        /\ pc = "done" => ~broken /\ ~unserved
============================================================================

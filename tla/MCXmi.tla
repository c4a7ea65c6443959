------------------------------- MODULE MCXmi -------------------------------
(***************************************************************************)
(* Songs of one track with every two events of an alphabet that has every  *)
(* kind of message the converter tells apart, songs of three notes, songs  *)
(* of two tracks, and files that are broken in front of their events.      *)
(***************************************************************************)
EXTENDS XmiSong

Tempo1 == <<255, 81, 7, 161, 32>>           \* 500000 microseconds
Tempo2 == <<255, 81, 4, 147, 224>>          \* 300000
TempoZero == <<255, 81, 0, 10, 0>>          \* too fast for a division
EndMark == <<255, 47>>

Ev(d, m, h) == [delay |-> d, msg |-> m, hold |-> h]
Note(d, h) == Ev(d, <<144, 60, 100>>, h)

Msgs == {<<176, 7, 90>>, <<176, 0, 3>>, <<192, 24>>, <<201, 24>>, <<240, 65, 16>>,
         <<255, 1, 72>>, Tempo1, Tempo2}
Delays == {0, 130}
Alphabet == {Ev(d, m, 0) : d \in Delays, m \in Msgs}
              \cup {Note(d, h) : d \in Delays, h \in {0, 2, 130}}
Notes == {Note(d, h) : d \in {0, 1}, h \in {0, 1, 3}}

Ending(d) == Ev(d, EndMark, 0)
Pairs == {<<a, b, Ending(2)>> : a \in Alphabet, b \in Alphabet}
Chords == {<<a, b, c, Ending(1)>> : a \in Notes, b \in Notes, c \in Notes}
Unended == {<<Note(1, 5), Note(1, 0)>>, <<Note(0, 0), Note(0, 1)>>}

Number(n) == IF n < 128 THEN <<n>> ELSE <<128 + n \div 128, n % 128>>
DelayBytes(n) == [k \in 1 .. n \div 127 |-> 127]
                    \o (IF n % 127 = 0 THEN <<>> ELSE <<n % 127>>)
MsgBytes(e) ==
    CASE e.msg[1] = 255 -> <<255, e.msg[2]>> \o Number(Len(e.msg) - 2)
                             \o SubSeq(e.msg, 3, Len(e.msg))
      [] e.msg[1] = 240 -> <<240>> \o Number(Len(e.msg) - 1) \o Tail(e.msg)
      [] IsNote(e.msg) -> e.msg \o Number(e.hold)
      [] OTHER -> e.msg

TrackBytes(t) == FlattenSeq([n \in DOMAIN t |-> DelayBytes(t[n].delay) \o MsgBytes(t[n])])

Padded(bs) == IF Len(bs) % 2 = 0 THEN bs ELSE Append(bs, 0)
Chunk(tag, bs) == tag \o Big4(Len(bs)) \o Padded(bs)

TIMB == <<84, 73, 77, 66>>
TrackForm(t) == Chunk(FORM, XMID \o Chunk(TIMB, <<1, 0, 2>>) \o Chunk(EVNT, TrackBytes(t)))
Forms(song) == FlattenSeq([n \in DOMAIN song |-> TrackForm(song[n])])

Directory(n) == Chunk(FORM, XDIR \o Chunk(INFO, <<n, 0>>))
Catalogue(song) == Chunk(CAT, XMID \o Forms(song))

(* What a file is to the converter: "whole" when its directory, its        *)
(* catalogue and as many tracks as the directory says can be walked to,    *)
(* "bare" when it is one track without a directory, "foreign" when a       *)
(* program is not one of an MT32, else "broken".                           *)
File(bs, song) == [bytes |-> bs, song |-> song, kind |-> "whole"]
Whole(song) == File(Directory(Len(song)) \o Catalogue(song), song)
Broken(bs) == [bytes |-> bs, song |-> <<>>, kind |-> "broken"]

TwoTempos == <<Ev(0, Tempo1, 0), Ev(0, Tempo2, 0)>>
Short == <<Note(0, 1), Ending(1)>>
TwoTracks == {<<Short, <<a, Ending(2)>>>> : a \in Alphabet}
AsWhole == Whole(<<Short>>).bytes
Bare == [bytes |-> TrackForm(Short), song |-> <<Short>>, kind |-> "bare"]
Foreign == [Whole(<<<<Ev(0, <<192, 200>>, 0)>>>>) EXCEPT !.kind = "foreign"]

(* A file that is cut off can be walked when it is cut between two events. *)
Cut(n) ==
    CASE n = Len(AsWhole) - 4 -> File(SubSeq(AsWhole, 1, n), <<<<Note(0, 1)>>>>)
      [] n = Len(AsWhole) - 8 -> File(SubSeq(AsWhole, 1, n), <<<<>>>>)
      [] OTHER -> Broken(SubSeq(AsWhole, 1, n))

(* A length of 2^32 - n, and chunks with one.                              *)
Minus(n) == <<255, 255, 255, 256 - n>>
InCatalogue(bs) == Directory(1) \o Chunk(CAT, XMID \o bs \o Forms(<<Short>>))
InDirectory(formLen, bs) == FORM \o formLen \o XDIR \o bs \o Catalogue(<<Short>>)
BackTrack == FORM \o Big4(20) \o XMID \o EVNT \o Minus(8) \o TrackBytes(Short)

MCFiles ==
    {Whole(<<t>>) : t \in Pairs \cup Chords \cup Unended}
    \cup {Whole(s) : s \in TwoTracks}
    \* another chunk in the directory, and fewer tracks than there are
    \cup {File(Chunk(FORM, XDIR \o Chunk(TIMB, <<1>>) \o Chunk(INFO, <<1, 0>>))
                 \o Catalogue(<<Short, Short>>), <<Short>>)}
    \cup {Cut(n) : n \in 0 .. Len(AsWhole) - 1}
    \* no end mark, and the file ends in a delay, or in a skipped tempo
    \cup {Broken(Whole(<<<<Note(1, 5), Note(1, 0)>>>>).bytes \o <<5>>)}
    \cup {File(SubSeq(Whole(<<TwoTempos>>).bytes, 1, Len(Whole(<<TwoTempos>>).bytes) - 3),
               <<TwoTempos>>)}
    \cup {Broken(Directory(2) \o Catalogue(<<Short>>)),
          Broken(Directory(0) \o Catalogue(<<Short>>)),
          Broken(Chunk(FORM, XDIR \o Chunk(INFO, <<1>>)) \o Catalogue(<<Short>>)),
          Broken(Chunk(FORM, XDIR \o Chunk(TIMB, <<1>>)) \o Catalogue(<<Short>>)),
          Broken(Chunk(XDIR, FORM \o XMID) \o Catalogue(<<Short>>)),
          Broken(Directory(1) \o Chunk(CAT, XDIR \o Forms(<<Short>>))),
          Broken(Directory(1) \o Chunk(FORM, XMID \o Forms(<<Short>>))),
          Broken(Whole(<<<<Ev(0, TempoZero, 0), Ending(1)>>>>).bytes)}
    \cup {Bare, Foreign}
    \* lengths of 2^31 and more: in the catalogue to itself, back into the
    \* file, in front of it, and on by nothing
    \cup {Broken(InCatalogue(TIMB \o Minus(n))) : n \in {8, 20, 42, 50}}
    \cup {File(InCatalogue(TIMB \o Minus(1)), <<Short>>)}
    \* in the directory, or its own length
    \cup {Broken(InDirectory(len, TIMB \o Minus(n))) :
             len \in {Big4(12), Minus(1)}, n \in {20, 24, 40}}
    \cup {Broken(InDirectory(Big4(12), TIMB \o Minus(8)))}
    \cup {Broken(InDirectory(Minus(n), Chunk(INFO, <<1, 0>>))) : n \in {1, 16, 40}}
    \* of a track, which is then read again
    \cup {File(Directory(n) \o Chunk(CAT, XMID \o BackTrack), [k \in 1 .. n |-> Short]) :
             n \in 1 .. 2}
============================================================================

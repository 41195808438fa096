-------------------------------- MODULE Gnss --------------------------------
(***************************************************************************)
(* The GNSS reader: gnss_coro_body of libs/mx_rtk.lua on the serial        *)
(* coroutine of libs/coro-serial.lua, and parse_nmea of libs/nmea.lua.     *)
(* The receiver sends for every epoch the sentences RMC, GGA and GLL.  The *)
(* bytes come in pieces; the reader keeps an unfinished line in rxbuf,     *)
(* looks for "$G", takes the line up to its newline and emits "data" with  *)
(* every GGA: the coordinates are those of the last RMC, the status that   *)
(* of the last GGA.                                                        *)
(*                                                                         *)
(* A sentence is three bytes: "$", its text, newline.  Everything runs on  *)
(* one loop; only a read waits.  Abstracted: the relays of lines to        *)
(* sockets and of corrections to the receiver, satellite tables, and the   *)
(* requests for GGA lines (drp_write, see T2nDrp).                         *)
(*                                                                         *)
(* External: the receiver, and the serial line, which may damage a         *)
(* sentence from its checksum to its newline; the line is then joined to   *)
(* the next one, whose checksum does not fit the two.  A read that ends    *)
(* with an error ends the stream: the device is never opened again.        *)
(***************************************************************************)
EXTENDS Naturals, Sequences

CONSTANTS
    Positions,     \* of the antenna; also name the epoch
    NoPosition,    \* lat = 0 or lng = 0
    RXBUF,         \* rxbuf.length, 8192
    BURST,         \* bound: bytes the receiver sends without a pause of char_timeout
    GLL_MAX        \* 60

ASSUME GnssAssumption ==
    /\ NoPosition \notin Positions
    /\ RXBUF \in Nat /\ BURST \in 1..(RXBUF - 1) /\ GLL_MAX \in Nat

VARIABLES
    feed,          \* the next byte on the line
    chunk,         \* SerialPort:read: bytes of the read under way
    rxbuf,         \* its bytes before end_pos, in the loop only those from pos on
    pos,           \* left as it is by a read that fails
    at,            \* "read" or "scan"
    gps_data,      \* lat and lng from RMC, status from GGA
    gps_timeout,   \* GLL sentences since the last position
    emitted,       \* what the last step emitted
    parsed,        \* history: what parse_nmea took last
    harmed         \* history: since the last good RMC something was lost or damaged

gnssVars == <<feed, chunk, rxbuf, pos, at, gps_data, gps_timeout, emitted, parsed, harmed>>

Epochs == Positions \cup {NoPosition}
Talks == {"RMC", "GGA", "GLL"}
Text == Talks \X Epochs
Dollar == <<"$">>
Newline == <<"newline">>
Noise == <<"noise">>
Byte == Text \cup {Dollar, Newline, Noise}

GnssTypeOK ==
    /\ feed \in [byte : Byte, text : Text]
    /\ chunk \in Seq(Byte) /\ Len(chunk) <= BURST
    /\ rxbuf \in Seq(Byte) /\ Len(rxbuf) < RXBUF
    /\ pos \in 1..RXBUF
    /\ at \in {"read", "scan"}
    /\ gps_data \in [position : Epochs, status : Epochs]
    /\ gps_timeout \in 0..GLL_MAX
    /\ emitted \in {"nothing", "data", "timeout"}
    /\ parsed \in Talks \cup {"nothing"}
    /\ harmed \in BOOLEAN

\* The sentences that may follow one.
After(text) ==
    CASE text[1] = "RMC" -> {<<"GGA", text[2]>>}
      [] text[1] = "GGA" -> {<<"GLL", text[2]>>}
      [] OTHER -> {"RMC"} \X Epochs

\* The bytes that may follow, each with the sentence it belongs to.
Following(f) ==
    CASE f.byte = Dollar -> {[f EXCEPT !.byte = f.text]}
      [] f.byte = f.text -> {[f EXCEPT !.byte = b] : b \in {Newline, Noise}}
      [] OTHER -> {[byte |-> Dollar, text |-> t] : t \in After(f.text)}

GnssInit ==
    /\ feed \in [byte : {Dollar}, text : {"RMC"} \X Epochs]
    /\ chunk = <<>> /\ rxbuf = <<>> /\ pos = 1 /\ at = "read"
    /\ gps_data = [position |-> NoPosition, status |-> NoPosition]
    /\ gps_timeout = 0
    /\ emitted = "nothing" /\ parsed = "nothing" /\ harmed = TRUE

(***************************************************************************)
(* SerialPort:read.                                                        *)
(***************************************************************************)
\* It ends with a pause, or with want_len bytes; or after a second without any.
ReadEnds == at = "read" /\ chunk # <<>>
TimesOut == at = "read" /\ chunk = <<>>

\* The poll callback takes one byte more.
Arrive ==
    /\ at = "read" /\ Len(chunk) < BURST
    /\ chunk' = Append(chunk, feed.byte)
    /\ feed' \in Following(feed)
    /\ emitted' = "nothing"
    /\ UNCHANGED <<rxbuf, pos, at, gps_data, gps_timeout, parsed, harmed>>

\* One byte too many.
MutOverflows == Len(rxbuf) + Len(chunk) > RXBUF

Overflows == Len(rxbuf) + 1 + Len(chunk) > RXBUF

\* The new bytes are looked at from where the last scan has ended.
MutReadDone ==
    /\ ReadEnds
    /\ rxbuf' = SubSeq(rxbuf \o chunk, pos, Len(rxbuf \o chunk))
    /\ pos' = 1
    /\ at' = "scan"
    /\ chunk' = <<>> /\ emitted' = "nothing"
    /\ UNCHANGED <<feed, gps_data, gps_timeout, parsed, harmed>>

\* What does not fit replaces what is there.
ReadDone ==
    /\ ReadEnds
    /\ rxbuf' = IF Overflows THEN chunk ELSE rxbuf \o chunk
    /\ harmed' = (harmed \/ Overflows)
    /\ pos' = 1
    /\ at' = "scan"
    /\ chunk' = <<>> /\ emitted' = "nothing"
    /\ UNCHANGED <<feed, gps_data, gps_timeout, parsed>>

From(k) == SubSeq(rxbuf, k, Len(rxbuf))

\* The buffer is moved by the old pos once more.
ReadFails ==
    /\ TimesOut
    /\ rxbuf' = From(pos)
    /\ harmed' = (harmed \/ rxbuf' # rxbuf)
    /\ pos' = IF rxbuf' = <<>> THEN 1 ELSE pos
    /\ emitted' = "nothing"
    /\ UNCHANGED <<feed, chunk, at, gps_data, gps_timeout, parsed>>

(***************************************************************************)
(* The loop over the buffer.                                               *)
(***************************************************************************)
InSync == Len(rxbuf) > 1 /\ rxbuf[1] = Dollar /\ rxbuf[2] \in Text

\* get_line
LineEnd ==
    { e \in 1..Len(rxbuf) : rxbuf[e] = Newline /\ \A k \in 1..(e - 1) : rxbuf[k] # Newline }

\* The last byte is not kept.
MutScanEnd ==
    /\ at = "scan" /\ at' = "read"
    /\ Len(rxbuf) < 2 \/ (InSync /\ LineEnd = {})
    /\ rxbuf' = IF Len(rxbuf) < 2 THEN <<>> ELSE rxbuf
    /\ emitted' = "nothing"
    /\ UNCHANGED <<feed, chunk, pos, gps_data, gps_timeout, parsed, harmed>>

\* What is left is moved to the front; with nothing left pos does not matter.
ScanEnd ==
    /\ at = "scan" /\ at' = "read"
    /\ Len(rxbuf) < 2 \/ (InSync /\ LineEnd = {})
    /\ pos' = IF rxbuf = <<>> THEN 1 ELSE pos
    /\ emitted' = "nothing"
    /\ UNCHANGED <<feed, chunk, rxbuf, gps_data, gps_timeout, parsed, harmed>>

\* The bytes stay in front.
MutHandled(k) == rxbuf' = rxbuf /\ pos' = pos + k

Handled(k) == rxbuf' = From(k + 1) /\ pos' = pos + k

ScanSkip ==
    /\ at = "scan" /\ Len(rxbuf) > 1 /\ ~InSync
    /\ Handled(1)
    /\ emitted' = "nothing"
    /\ UNCHANGED <<feed, chunk, at, gps_data, gps_timeout, parsed, harmed>>

\* gps_check
Checked(line) == Len(line) = 3

\* parse_nmea
Parse(line) ==
    LET talk == line[2][1]
    IN  IF Checked(line)
        THEN /\ gps_data' = CASE talk = "RMC" -> [gps_data EXCEPT !.position = line[2][2]]
                              [] talk = "GGA" -> [gps_data EXCEPT !.status = line[2][2]]
                              [] OTHER -> gps_data
             /\ parsed' = talk
             /\ harmed' = (harmed /\ talk # "RMC")
        ELSE UNCHANGED <<gps_data, parsed>> /\ harmed' = TRUE

\* Whether parse_nmea has accepted the line is not asked.
Emit(talk) ==
    CASE talk = "GGA" /\ gps_data'.position # NoPosition ->
             emitted' = "data" /\ gps_timeout' = 0
      [] talk = "GLL" /\ gps_timeout = GLL_MAX ->
             emitted' = "timeout" /\ gps_timeout' = 0
      [] OTHER ->
             /\ emitted' = "nothing"
             /\ gps_timeout' = IF talk = "GLL" THEN gps_timeout + 1 ELSE gps_timeout

ScanLine ==
    /\ at = "scan" /\ InSync
    /\ \E e \in LineEnd : Handled(e) /\ Parse(SubSeq(rxbuf, 1, e))
    /\ Emit(rxbuf[2][1])
    /\ UNCHANGED <<feed, chunk, at>>

Scan == ScanEnd \/ ScanSkip \/ ScanLine

GnssNext == Arrive \/ ReadDone \/ ReadFails \/ Scan

GnssSpec == GnssInit /\ [][GnssNext]_gnssVars

\* The receiver keeps sending, every burst has its pause, the loop goes on.
FairGnssSpec ==
    GnssSpec /\ WF_gnssVars(Arrive) /\ WF_gnssVars(ReadDone) /\ WF_gnssVars(Scan)

(***************************************************************************)
(* Properties.                                                             *)
(***************************************************************************)
\* The sentences that are whole in what the reader has and has not handled yet.
Unhandled == rxbuf \o chunk

WholeAt(s, k) == k > 2 /\ s[k] = Newline /\ s[k - 1] \in Text /\ s[k - 2] = Dollar

\* Element n: those that end with the n-th byte or before it.
WholeUpTo(s) ==
    LET up[n \in 0..Len(s)] ==
            IF n = 0 THEN <<>>
            ELSE IF WholeAt(s, n) THEN Append(up[n - 1], s[n - 1][1]) ELSE up[n - 1]
    IN  up

Whole(s) == WholeUpTo(s)[Len(s)]

Fifo == INSTANCE FrameFifo WITH
            Frames <- Talks, ROOM <- RXBUF + BURST,
            queue <- Whole(Unhandled), passed <- parsed

\* The reader is a queue of sentences: what parse_nmea takes are sentences as the
\* receiver sent them, in their order and each once, wherever reads cut the bytes,
\* fail or overflow the buffer; a sentence that is there whole is taken or dropped
\* in its turn.
ImplementsFifo == Fifo!FifoSpec

\* No whole sentence is dropped without cause: one leaves the reader by parse_nmea, or
\* because the buffer overflowed or the end of a sentence before it was damaged.
NoneDropped ==
    [][ Len(Whole(Unhandled')) < Len(Whole(Unhandled)) =>
          harmed' \/ parsed' = Head(Whole(Unhandled)) ]_gnssVars

\* Coordinates and status that go out together are of one epoch, unless bytes were
\* lost or damaged since the last RMC: then a GGA goes out with coordinates of an
\* older epoch, or, damaged itself, with an older status.
EpochTrue == emitted = "data" => harmed \/ gps_data.position = gps_data.status

\* The reader finds back: once the line is undamaged, no read fails and the receiver
\* has positions, they go out again and again, whatever is left in the buffer.
PositionsArrive ==
    /\ <>[](feed.byte # Noise /\ feed.text[2] # NoPosition)
    /\ <>[][~ReadFails]_gnssVars
    => []<>(emitted = "data")
=============================================================================

-------------------------------- MODULE Dedup --------------------------------
(***************************************************************************)
(* Uplink deduplication (TLSServer.py): every base station that hears a    *)
(* packet of a sensor forwards its copy (ulData); the copy with the best   *)
(* SNR waits in deduplication_buffer until the publisher task finds it old *)
(* enough.  The ulData handler also moves the preferred downlink path of   *)
(* the sensor and counts lost packets from gaps in the packet counter.     *)
(*                                                                         *)
(* Time is that of the event loop (time.monotonic: it starts with the      *)
(* host, not with the service), in units in which Delay is an integer.     *)
(* One pass of the publisher never suspends: the MQTT queue is unbounded.  *)
(* Every ulData here has the fields of its message: one without "rssi"     *)
(* would be buffered and end the publisher's task at its pass.             *)
(***************************************************************************)
EXTENDS Integers, Sequences, FiniteSets

CONSTANTS
  Sensors,
  Stations,
  None,
  Snrs,       (* the SNR values told apart                                 *)
  Delay,      (* DEDUPLICATION_DELAY                                       *)
  Late,       (* bound: the loop wakes a due sleep at most this much late  *)
  Boot,       (* loop time at which the service starts                     *)
  Wrap,       (* 65536, the packet counter's modulus                       *)
  Sanity,     (* 1000, the bound on a gap that counts as loss              *)
  FirstCnt,   (* packet number n carries the counter (FirstCnt + n) % Wrap *)
  MaxPackets, (* bound on the packets of a sensor                          *)
  MaxTime     (* bound on the loop time                                    *)

ASSUME SnrAssumption == Snrs \subseteq Int
ASSUME TimeAssumption ==
  Delay \in Nat \ {0} /\ Late \in Nat /\ Boot \in Nat /\ MaxTime \in Nat
ASSUME CounterAssumption ==
  /\ MaxPackets \in Nat /\ Sanity \in Nat /\ FirstCnt \in Nat
  /\ Wrap \in Nat \ {0}
ASSUME NoneAssumption ==
  /\ None \notin [snr : Snrs, bs : Stations, at : Int]
  /\ None \notin Stations /\ None \notin Int

Packets == 1 .. MaxPackets

(* The buffer's key f"{eui}_{packetCnt}", with the packet for its counter. *)
Keys == Sensors \X Packets

Cnt(n) == (FirstCnt + n) % Wrap

(* The same key in the code: the same sensor, whole counter rounds apart.  *)
SameKey(k, other) ==
  k[1] = other[1] /\ k # other /\ Cnt(k[2]) = Cnt(other[2])

VARIABLES
  now,        (* loop time                                                 *)
  wake,       (* when the publisher's sleep is over                        *)
  buffer,     (* deduplication_buffer                                      *)
  preferred,  (* preferredDownlinkPath["baseStation"] and primary_bs       *)
  lastCnt,    (* last_packet_cnt, None before the first packet             *)
  lost,       (* packets_lost                                              *)
  heard,      (* last packet a base station forwarded, per sensor          *)
  window,     (* history: SNRs of the copies since it was last published   *)
  accepted,   (* history: when a copy was last buffered, or None           *)
  counted     (* history: packets taken for new, in order                  *)

dedupVars == <<now, wake, buffer, preferred, lastCnt, lost, heard, window,
               accepted, counted>>

Entry == [snr : Snrs, bs : Stations, at : Int]

TypeOK ==
  /\ now \in Int
  /\ wake \in now - Late .. now + Delay
  /\ buffer \in [Keys -> Entry \cup {None}]
  /\ preferred \in [Sensors -> Stations \cup {None}]
  /\ lastCnt \in [Sensors -> Int \cup {None}]
  /\ lost \in [Sensors -> Int]
  /\ heard \in [Sensors -> [Stations -> 0 .. MaxPackets]]
  /\ window \in [Keys -> SUBSET Snrs]
  /\ accepted \in [Keys -> Int \cup {None}]
  /\ counted \in [Sensors -> Seq(Packets)]

Init ==
  /\ now = Boot
  /\ wake = Boot + Delay
  /\ buffer = [k \in Keys |-> None]
  /\ preferred = [s \in Sensors |-> None]
  /\ lastCnt = [s \in Sensors |-> None]
  /\ lost = [s \in Sensors |-> 0]
  /\ heard = [s \in Sensors |-> [b \in Stations |-> 0]]
  /\ window = [k \in Keys |-> {}]
  /\ accepted = [k \in Keys |-> None]
  /\ counted = [s \in Sensors |-> <<>>]

-----------------------------------------------------------------------------
Buffered(k) == buffer[k] # None

(* Mutant: a weaker copy replaces a stronger one.                          *)
BetterReversed(k, snr) == snr < buffer[k].snr

(* The test that lets a copy replace the buffered one.                     *)
Better(k, snr) == snr > buffer[k].snr

(* Mutant: the wrap-around is missing.                                     *)
GapNoWrap(last, cnt) == cnt - last - 1

(* Packets between the last counter and this one, modulo the counter.      *)
Gap(last, cnt) ==
  IF cnt > last THEN cnt - last - 1 ELSE (Wrap - last - 1) + cnt

LostBetween(last, cnt) ==
  IF cnt # (last + 1) % Wrap /\ Gap(last, cnt) > 0 /\ Gap(last, cnt) < Sanity
  THEN Gap(last, cnt) ELSE 0

(* What both kinds of accepted copies do: buffer it, restart its delay,    *)
(* and make its base station the preferred path.                           *)
Buffer(k, b, snr) ==
  /\ buffer' = [buffer EXCEPT ![k] = [snr |-> snr, bs |-> b, at |-> now]]
  /\ preferred' = [preferred EXCEPT ![k[1]] = b]
  /\ accepted' = [accepted EXCEPT ![k] = now]

(* Station b forwards its copy of a packet; a station forwards in order,   *)
(* and no sensor sends a round of the counter while a packet is buffered.  *)
Forward(b, k, snr) ==
  /\ k[2] > heard[k[1]][b]
  /\ \A other \in Keys : SameKey(k, other) => ~Buffered(other)
  /\ heard' = [heard EXCEPT ![k[1]][b] = k[2]]
  /\ window' = [window EXCEPT ![k] = @ \cup {snr}]
  /\ UNCHANGED <<now, wake>>

(* ulData of a packet that is not in the buffer.                           *)
UplinkNew(b, k, snr) ==
  LET s   == k[1]
      cnt == Cnt(k[2])
  IN  /\ ~Buffered(k)
      /\ Forward(b, k, snr)
      /\ Buffer(k, b, snr)
      /\ lost' = IF lastCnt[s] = None THEN lost
                 ELSE [lost EXCEPT ![s] = @ + LostBetween(lastCnt[s], cnt)]
      /\ lastCnt' = [lastCnt EXCEPT ![s] = cnt]
      /\ counted' = [counted EXCEPT ![s] = Append(@, k[2])]

(* Mutant: the better copy is taken, the preferred path is not moved.      *)
UplinkBetterKeepPath(b, k, snr) ==
  /\ Buffered(k)
  /\ Better(k, snr)
  /\ Forward(b, k, snr)
  /\ buffer' = [buffer EXCEPT ![k] = [snr |-> snr, bs |-> b, at |-> now]]
  /\ accepted' = [accepted EXCEPT ![k] = now]
  /\ UNCHANGED <<preferred, lost, lastCnt, counted>>

(* ulData of a buffered packet with a better SNR.                          *)
UplinkBetter(b, k, snr) ==
  /\ Buffered(k)
  /\ Better(k, snr)
  /\ Forward(b, k, snr)
  /\ Buffer(k, b, snr)
  /\ UNCHANGED <<lost, lastCnt, counted>>

(* ulData of a buffered packet with no better SNR: acknowledged, dropped.  *)
UplinkDropped(b, k, snr) ==
  /\ Buffered(k)
  /\ ~Better(k, snr)
  /\ Forward(b, k, snr)
  /\ UNCHANGED <<buffer, preferred, accepted, lost, lastCnt, counted>>

(* Mutant: whatever is buffered is due.                                    *)
DueAtOnce(k) == Buffered(k)

(* Mutant: waits for the horizon of the clean-up.                          *)
DueTwice(k) == Buffered(k) /\ now - buffer[k].at >= 2 * Delay

(* Old enough to publish.                                                  *)
Due(k) == Buffered(k) /\ now - buffer[k].at >= Delay

(* Mutant: the clean-up compares the age with the delay itself.            *)
SweptYoung(k) == Buffered(k) /\ ~Due(k) /\ now - buffer[k].at >= Delay - 1

(* The clean-up after a pass deletes what is still buffered and "too old": *)
(* it compares the entry's age with a point in time.                       *)
Swept(k) ==
  Buffered(k) /\ ~Due(k) /\ now - buffer[k].at > now - Delay * 2

(* Mutant: the publisher sleeps through two more windows.                  *)
PublishSlow ==
  /\ now >= wake
  /\ wake' = now + 3 * Delay
  /\ buffer' = [k \in Keys |->
                  IF Due(k) \/ Swept(k) THEN None ELSE buffer[k]]
  /\ window' = [k \in Keys |-> IF Due(k) THEN {} ELSE window[k]]
  /\ UNCHANGED <<now, preferred, lastCnt, lost, heard, accepted, counted>>

(* One pass of process_deduplication_buffer, then its next sleep.          *)
Publish ==
  /\ now >= wake
  /\ wake' = now + Delay
  /\ buffer' = [k \in Keys |->
                  IF Due(k) \/ Swept(k) THEN None ELSE buffer[k]]
  /\ window' = [k \in Keys |-> IF Due(k) THEN {} ELSE window[k]]
  /\ UNCHANGED <<now, preferred, lastCnt, lost, heard, accepted, counted>>

(* Time passes, but a due sleep is not kept waiting longer than Late.      *)
Tick ==
  /\ now < wake + Late
  /\ now < MaxTime
  /\ now' = now + 1
  /\ UNCHANGED <<wake, buffer, preferred, lastCnt, lost, heard, window,
                 accepted, counted>>

Uplink ==
  \E b \in Stations, k \in Keys, snr \in Snrs :
    \/ UplinkNew(b, k, snr)
    \/ UplinkBetter(b, k, snr)
    \/ UplinkDropped(b, k, snr)

Next == Uplink \/ Publish \/ Tick

Spec == Init /\ [][Next]_dedupVars

-----------------------------------------------------------------------------
(***************************************************************************)
(* Properties                                                              *)
(***************************************************************************)

(* The buffer holds the best of the copies received since a packet was     *)
(* last published, and nothing once it is published: no copy is lost to    *)
(* the clean-up, no weaker one wins whatever the arrival order, and none   *)
(* is published twice (README.md, "Best Path Selection").                  *)
BestCopyBuffered ==
  \A k \in Keys :
    IF Buffered(k)
    THEN /\ buffer[k].snr \in window[k]
         /\ \A snr \in window[k] : snr <= buffer[k].snr
    ELSE window[k] = {}

(* The publisher's sleep and the age test add up: a copy leaves the buffer *)
(* less than two delays, plus the loop's lateness, after it came (as long  *)
(* as no copy in the buffer lacks a field and ends the publisher).         *)
BufferAgeBounded ==
  \A k \in Keys : Buffered(k) => now - buffer[k].at < 2 * Delay + Late

(* "Deduplication window: 2.0s" (advanced-features.md): a copy that comes  *)
(* within the delay of an accepted one finds it in the buffer and is       *)
(* compared with it; only a later one is taken for a new packet.           *)
WindowNotSplit ==
  [][\A k \in Keys :
       ~Buffered(k) /\ buffer'[k] # None /\ accepted[k] # None
         => now - accepted[k] >= Delay]_dedupVars

(* The preferred downlink path of a sensor with packets in the buffer is   *)
(* the station of the copy that was accepted last, also after the          *)
(* publisher took others out.                                              *)
PreferredIsLatestAccepted ==
  \A s \in Sensors :
    LET own == {k \in Keys : k[1] = s /\ Buffered(k)}
    IN  own # {} =>
          \E k \in own :
            /\ buffer[k].bs = preferred[s]
            /\ \A other \in own : buffer[other].at <= buffer[k].at

(* Taken for new in the order of sending, with no whole round of the       *)
(* counter missing between two that follow each other.                     *)
InStep(seq) ==
  /\ \A i, j \in DOMAIN seq : i < j => seq[i] < seq[j]
  /\ \A i \in 1 .. Len(seq) - 1 : seq[i + 1] - seq[i] < Wrap

(* When the packets of a sensor are taken for new in the order they were   *)
(* sent, packets_lost is the number of those missing from every gap below  *)
(* the sanity bound, however many times the counter wraps; only a gap of a *)
(* whole round, which no counter can show, is left out.                    *)
LossCountExact ==
  \A s \in Sensors : InStep(counted[s]) =>
    lost[s] = Cardinality(
      {n \in Packets : \E i \in 1 .. Len(counted[s]) - 1 :
         /\ counted[s][i] < n /\ n < counted[s][i + 1]
         /\ counted[s][i + 1] - counted[s][i] <= Sanity})
=============================================================================

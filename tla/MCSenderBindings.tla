-------------------------- MODULE MCSenderBindings --------------------------
(* Instances of SenderBindings for TLC. *)
EXTENDS SenderBindings

\* The layouts RFC 6330 partitioning produces (block sizes differ by at most
\* one, larger blocks first) for 1 to 3 blocks of up to 3 symbols.
MCLayouts ==
  {k \in UNION {[0..(n - 1) -> 1..3] : n \in 1..3} :
     \A b, c \in DOMAIN k : b < c => k[b] \in {k[c], k[c] + 1}}

MCIntervals == {0, 2, 4, 5}

\* A frame a tick; three frames a tick, more than the samples kept; and a stall
\* of nine ticks, longer than the window, after the fourth frame.
Steady == [i \in 1..MaxFrames |-> i]
Fast   == [i \in 1..MaxFrames |-> i \div 3]
Stall  == [i \in 1..MaxFrames |-> IF i < 5 THEN i ELSE i + 9]

Host(api, file, fits_qr, clock) ==
  [api |-> api, file |-> file, fits_qr |-> fits_qr, clock |-> clock]

Small == [sbn \in {0, 1} |-> 2 - sbn]

\* Every layout with single frames and any cadence, one of them under each clock; a
\* file of two segments behind the C handle; and every call of the browser, with
\* symbols that fit a QR code or do not.
MCHosts ==
  {Host("frame", <<k>>, TRUE, Steady) : k \in MCLayouts}
    \cup {Host("frame", <<Small>>, TRUE, clock) : clock \in {Fast, Stall}}
    \cup {Host("c", <<Small, [sbn \in {0} |-> 1]>>, TRUE, Steady)}
    \cup {Host(api, <<Small>>, fits, Steady) :
            api \in {"qr", "qr_into", "multi", "multi_into", "scratch"}, fits \in BOOLEAN}
============================================================================

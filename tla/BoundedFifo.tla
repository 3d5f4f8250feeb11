---------------------------- MODULE BoundedFifo ----------------------------
(***************************************************************************)
(* What a channel of opensand-rt promises to the blocks it links: a queue  *)
(* of at most Capacity messages, each message of a producer taken exactly  *)
(* once and in the order in which that producer put it.                    *)
(***************************************************************************)
EXTENDS Naturals, Sequences

CONSTANTS Producers,  \* the threads that put messages
          Capacity,   \* how many messages the queue may hold
          Numbers     \* messages of a producer are numbered modulo this

VARIABLES contents,   \* the queued messages, oldest first
          sent,       \* sent[p]: number of the next message p puts
          received    \* received[p]: number of p's next message to be taken

avars == <<contents, sent, received>>

Message == [from : Producers, num : 0 .. Numbers - 1]

AInit == /\ contents = << >>
         /\ sent = [p \in Producers |-> 0]
         /\ received = [p \in Producers |-> 0]

Put(p) == /\ Len(contents) < Capacity
          /\ contents' = Append(contents, [from |-> p, num |-> sent[p]])
          /\ sent' = [sent EXCEPT ![p] = (@ + 1) % Numbers]
          /\ UNCHANGED received

\* The oldest message is taken, and it is the one its producer put next after
\* the last of its messages that was taken.
Take == /\ contents # << >>
        /\ LET m == Head(contents)
           IN /\ m.num = received[m.from]
              /\ received' = [received EXCEPT ![m.from] = (@ + 1) % Numbers]
        /\ contents' = Tail(contents)
        /\ UNCHANGED sent

ANext == Take \/ \E p \in Producers : Put(p)

ASpec == AInit /\ [][ANext]_avars
=============================================================================

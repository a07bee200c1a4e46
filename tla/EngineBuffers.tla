------------------------------ MODULE EngineBuffers ------------------------------
(***************************************************************************)
(* Who owns the blocks of bytes that ModelingEngine passes around.  Every  *)
(* block is allocated by the object that makes it (generator, coder,       *)
(* channel, decoder) and wrapped by a BinaryData that deletes it; the item *)
(* deletes its BinaryData objects (ModelingResultItem.cpp), SimulateTotal  *)
(* deletes the item once it is counted (ModelingEngine.cpp:105), and a     *)
(* decoded block that is not wanted yet is deleted by SimulateIteration.   *)
(*                                                                         *)
(* The actions here are what the steps of ModelingEngine do to the heap;   *)
(* CodecSimulation joins them to those steps.                              *)
(***************************************************************************)
EXTENDS ModelingEngine

VARIABLES
  heap,      \* the addresses of the blocks that are allocated
  owned      \* the blocks of each item in the queue, in the queue's order

buffers == <<heap, owned>>

\* The null pointer.
Null == 0

BlockNames == {"source", "encoded", "received", "decoded"}

\* new byte[..]: an address that is not in use.
NewAddress(used) == Min(1 .. (Cardinality(used) + 1) \ used)

\* The blocks of an item, which its destructor deletes.
BlocksOf(it) == {it[name] : name \in BlockNames} \ {Null}

BuffersInit == heap = {} /\ owned = <<>>

\* GenerateBlock makes the source block, and Encode the encoded one.
AllocateSource ==
  LET source  == NewAddress(heap)
      encoded == IF useCoder THEN NewAddress(heap \cup {source}) ELSE Null
      it == [source |-> source, encoded |-> encoded,
             received |-> Null, decoded |-> Null]
  IN  /\ heap' = heap \cup BlocksOf(it)
      /\ owned' = Append(owned, it)

\* HandleData returns a copy of the block it is given.
AllocateReceived ==
  LET received == NewAddress(heap)
  IN  /\ heap' = heap \cup {received}
      /\ owned' = [owned EXCEPT ![Len(owned)].received = received]

\* Mutant: the item keeps the received block for the decoded one.
ReturnReceived(destData) ==
  LET it == [Head(owned) EXCEPT !.decoded = Null]
  IN  /\ heap' = (heap \cup {destData}) \ BlocksOf(it)
      /\ owned' = Tail(owned)

\* The decoded block goes to the oldest item, which is deleted once it is counted.
ReturnItem(destData) ==
  LET it == [Head(owned) EXCEPT !.decoded = IF useCoder THEN destData ELSE Null]
  IN  /\ heap' = (heap \cup {destData}) \ BlocksOf(it)
      /\ owned' = Tail(owned)

\* Decode makes a new block; without a coder the received block stands for it.
ReleaseDecoded ==
  LET destData == IF useCoder THEN NewAddress(heap) ELSE owned[Len(owned)].received
  IN  IF LatencyIsOver
      THEN ReturnItem(destData)
      ELSE heap' = (heap \cup {destData}) \ {destData} /\ UNCHANGED owned

(***************************************************************************)
(* Every allocated block belongs to one place of one item in the queue,    *)
(* and every block of an item is allocated: no block is lost, none is      *)
(* deleted twice or used after it was deleted, over any number of          *)
(* iterations and simulations (ModelingEngine.cpp:429 deletes a block that *)
(* is an item's own if there is a latency and no coder).                   *)
(***************************************************************************)
BlocksHaveOneOwner ==
  /\ Len(owned) = Len(queue)
  /\ heap = UNION {BlocksOf(owned[place]) : place \in 1 .. Len(owned)}
  /\ \A place, other \in 1 .. Len(owned) : \A name, nameOther \in BlockNames :
       /\ owned[place][name] # Null
       /\ owned[place][name] = owned[other][nameOther]
       => place = other /\ name = nameOther

=============================================================================

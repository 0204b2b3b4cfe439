----------------------------- MODULE SendBuffer -----------------------------
(***************************************************************************)
(* The output buffer of a connection, async.core.dispatcher_with_send:      *)
(* send() appends to it and tries to empty it at once, handle_write() empties*)
(* it when the socket is writable, a chunk at a time.                       *)
(*                                                                          *)
(* The buffer of a connection is used by the main loop, and without a lock: *)
(* that of a client also by a worker that executes roster-push, that of the *)
(* trigger connection by every worker.  So each statement is cut where the  *)
(* interpreter can switch threads: between the load of self.out_buffer and  *)
(* the store, and in socket.send.                                           *)
(*                                                                          *)
(* The buffer holds characters (unicode, pjs/handlers/write.py), the socket *)
(* takes and counts bytes: a character has a width.                         *)
(***************************************************************************)
EXTENDS SequencesExt, Naturals

CONSTANTS
  Thread,      \* the threads that call send()
  Main,        \* the main loop, the only one to call handle_write()
  Widths,      \* the widths a character can have, in bytes
  Chunk,       \* characters per socket.send (512 in the code)
  MaxChars     \* bound: characters written in all

ASSUME SendBufferAssumption ==
  /\ Main \notin Thread
  /\ Widths \subseteq 1..4              \* UTF-8
  /\ Chunk \in Nat \ {0}
  /\ MaxChars \in Nat

VARIABLES
  out_buffer,  \* the characters not sent yet
  call,        \* call[t]: where t is in send() or handle_write(), its locals
  raises,      \* socket.send raises from now on
  written,     \* history: the characters given to send(), in order
  sent         \* history: the bytes the socket took, in order

bufferVars == <<out_buffer, call, raises, written, sent>>

Char == (1..MaxChars) \X Widths     \* numbered as they are written

(* What a sequence of characters is on the wire.                            *)
Encode(chars) == FlattenSeq([k \in DOMAIN chars |->
                               [b \in 1..chars[k][2] |-> <<chars[k][1], b>>]])

(* data[:n] and data[n:]                                                    *)
Upto(data, n) == SubSeq(data, 1, Min({n, Len(data)}))
From(data, n) == SubSeq(data, n + 1, Len(data))

(* The types of the state: bytes are counted from 0, and what is buffered is*)
(* characters (core.py:512-535).                                            *)
BufferTypeOK ==
  /\ out_buffer \in Seq(Char)
  /\ call \in [Thread \cup {Main} ->
       [at : {"idle", "store", "slice", "transmit", "rest", "truncate"},
        data : Seq(Char), num_sent : Nat]]
  /\ raises \in BOOLEAN
  /\ written \in Seq(Char)
  /\ sent \in Seq((1..MaxChars) \X Nat)

Idle == [at |-> "idle", data |-> <<>>, num_sent |-> 0]

BufferInit ==
  /\ out_buffer = <<>>
  /\ call = [t \in Thread \cup {Main} |-> Idle]
  /\ raises = FALSE
  /\ written = <<>> /\ sent = <<>>

(* send(data) loads the buffer it will append to ...                        *)
Send(t) ==
  /\ call[t].at = "idle"
  /\ \E n \in 1..(MaxChars - Len(written)), w \in Widths :
       LET data == [k \in 1..n |-> <<Len(written) + k, w>>]
       IN /\ call' = [call EXCEPT ![t] = [Idle EXCEPT !.at = "store",
                                                      !.data = out_buffer \o data]]
          /\ written' = written \o data
  /\ UNCHANGED <<out_buffer, raises, sent>>

(* ... and stores the sum.                                                  *)
StoreAppended(t) ==
  /\ call[t].at = "store"
  /\ out_buffer' = call[t].data
  /\ call' = [call EXCEPT ![t] = [Idle EXCEPT !.at = "slice"]]
  /\ UNCHANGED <<raises, written, sent>>

(* Mutant of HandleWrite: writable() waits for a full chunk.                *)
HandleWriteFull ==
  /\ call[Main].at = "idle"
  /\ Len(out_buffer) >= Chunk
  /\ ~raises
  /\ call' = [call EXCEPT ![Main].at = "slice"]
  /\ UNCHANGED <<out_buffer, raises, written, sent>>

(* The main loop calls handle_write() on a writable socket.                 *)
HandleWrite ==
  /\ call[Main].at = "idle"
  /\ out_buffer # <<>>
  /\ ~raises
  /\ call' = [call EXCEPT ![Main].at = "slice"]
  /\ UNCHANGED <<out_buffer, raises, written, sent>>

(* initiate_send(): a chunk is loaded,                                      *)
Slice(t) ==
  /\ call[t].at = "slice"
  /\ call' = [call EXCEPT ![t].at = "transmit",
                          ![t].data = Upto(out_buffer, Chunk)]
  /\ UNCHANGED <<out_buffer, raises, written, sent>>

(* the socket takes some of its bytes (none: EWOULDBLOCK), or raises,       *)
Take(t, bytes) ==
  /\ call[t].at = "transmit"
  /\ ~raises
  /\ \E n \in bytes :
       /\ n <= Len(Encode(call[t].data))
       /\ sent' = sent \o Upto(Encode(call[t].data), n)
       /\ call' = [call EXCEPT ![t].at = "rest", ![t].num_sent = n]
  /\ UNCHANGED <<out_buffer, raises, written>>

AllBytes == 0..(MaxChars * 4)

Transmit(t) == Take(t, AllBytes)

Raise(t) ==
  /\ call[t].at = "transmit"
  /\ raises' = TRUE
  /\ call' = [call EXCEPT ![t] = Idle]
  /\ UNCHANGED <<out_buffer, written, sent>>

(* Mutant of LoadRest: the whole chunk is dropped.                          *)
LoadRestOfChunk(t) ==
  /\ call[t].at = "rest"
  /\ call' = [call EXCEPT ![t].at = "truncate", ![t].data = From(out_buffer, Chunk)]
  /\ UNCHANGED <<out_buffer, raises, written, sent>>

(* and the rest of the buffer is loaded and stored: num_sent is a number of *)
(* bytes, and drops as many characters.                                     *)
LoadRest(t) ==
  /\ call[t].at = "rest"
  /\ call' = [call EXCEPT ![t].at = "truncate",
                          ![t].data = From(out_buffer, call[t].num_sent)]
  /\ UNCHANGED <<out_buffer, raises, written, sent>>

StoreRest(t) ==
  /\ call[t].at = "truncate"
  /\ out_buffer' = call[t].data
  /\ call' = [call EXCEPT ![t] = Idle]
  /\ UNCHANGED <<raises, written, sent>>

Step(t) == StoreAppended(t) \/ Slice(t) \/ Transmit(t) \/ LoadRest(t) \/ StoreRest(t)

BufferNext ==
  \/ HandleWrite
  \/ \E t \in Thread \cup {Main} : Send(t) \/ Step(t) \/ Raise(t)

(* The main loop keeps writing while select says the socket is writable,    *)
(* and a peer that reads makes room now and then.                           *)
BufferSpec ==
  /\ BufferInit
  /\ [][BufferNext]_bufferVars
  /\ WF_bufferVars(HandleWrite)
  /\ \A t \in Thread \cup {Main} :
       WF_bufferVars(Step(t)) /\ SF_bufferVars(Take(t, AllBytes \ {0}))

-----------------------------------------------------------------------------
Quiet == \A t \in Thread \cup {Main} : call[t].at = "idle"

(* What went out and what is still buffered is what was given to send(), in *)
(* order, nothing twice and nothing left out, through partial sends, full   *)
(* sockets and sockets that break (core.py 520-535).  If characters are     *)
(* wider than a byte num_sent drops too many of them: then bytes are left   *)
(* out, but still none goes out twice or after a later one.                 *)
Output == sent \o Encode(out_buffer)

Precedes(x, y) == x[1] < y[1] \/ (x[1] = y[1] /\ x[2] < y[2])

OutInOrder ==
  Quiet =>
    /\ \A i \in 1..(Len(Output) - 1) : Precedes(Output[i], Output[i + 1])
    /\ (\A i \in DOMAIN written : written[i][2] = 1) => Output = Encode(written)

(* Nothing given to send() disappears: "adds simple buffered output         *)
(* capability" (core.py:508).                                               *)
NothingLost ==
  Quiet => ToSet(Encode(written)) \subseteq ToSet(sent) \cup ToSet(Encode(out_buffer))

(* The buffer drains, unless the socket breaks: a chunk that was not taken  *)
(* is tried again by the main loop.                                         *)
Drains == <>[](raises \/ out_buffer = <<>>)
=============================================================================

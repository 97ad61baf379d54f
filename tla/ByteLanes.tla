----------------------------- MODULE ByteLanes -----------------------------
(***************************************************************************)
(* Bytes on the way between the program and a word of memory: how          *)
(* LSHandler.scala places a datum in the lanes of the bus and takes it out *)
(* again, and how pmem_write (verilator/src/memory/pmem.cpp) and           *)
(* mmio_write (device/io/mmio.cpp) split a masked write into runs of       *)
(* bytes.  A word is a function from lanes to bytes.                       *)
(***************************************************************************)
EXTENDS Integers, Sequences

CONSTANTS
  LANES,   \* bytes in a word: 8
  BYTE     \* values of a byte: 256

ASSUME LaneAssumption == {LANES, BYTE} \subseteq Nat \ {0}

Lane == 0 .. LANES - 1
Byte == 0 .. BYTE - 1
Data == [Lane -> Byte]
ZeroData == [l \in Lane |-> 0]

\* Sizes of accesses: SB, SH, SW, SD and the loads.
Sizes == {1, 2, 4, 8} \cap 1 .. LANES
-----------------------------------------------------------------------------
\* mask and w_data of a store, and io.r_data of a load; off is the offset of
\* the address in its word.  The low bits of a misaligned address are ignored.
StoreMask(size, off) == {l \in Lane : l \div size = off \div size}

\* Slip: the datum is in the first lanes, wherever the mask is.
StoreDataUnmoved(size, data) == data

StoreData(size, data) == [l \in Lane |-> data[l % size]]

Extension(signed, byte) == IF signed /\ 2 * byte >= BYTE THEN BYTE - 1 ELSE 0

LoadData(size, signed, off, word) ==
  LET first == size * (off \div size)
  IN [l \in Lane |-> IF l < size THEN word[first + l]
                     ELSE Extension(signed, word[first + size - 1])]
-----------------------------------------------------------------------------
\* data >>= 8 * lanes
ShiftRight(data, lanes) ==
  [l \in Lane |-> IF l + lanes \in Lane THEN data[l + lanes] ELSE 0]

\* The loop of pmem_write and of mmio_write: the run of bytes being collected
\* (w_len of them up to the lane before i; none when pre_mask is false), the
\* data not written yet, and the runs written.
Run(at, len, data) == [at |-> at, len |-> len, data |-> data]

\* Slip: the data is not moved on by the lane that ends a run.
SkipLaneRunOnly(acc, i) ==
  IF acc.w_len = 0 THEN [acc EXCEPT !.data = ShiftRight(@, 1)]
  ELSE [w_len |-> 0, data |-> ShiftRight(acc.data, acc.w_len),
        runs |-> Append(acc.runs, Run(i - acc.w_len, acc.w_len, acc.data))]

SkipLane(acc, i) ==
  IF acc.w_len = 0 THEN [acc EXCEPT !.data = ShiftRight(@, 1)]
  ELSE [w_len |-> 0, data |-> ShiftRight(acc.data, acc.w_len + 1),
        runs |-> Append(acc.runs, Run(i - acc.w_len, acc.w_len, acc.data))]

WriteRuns(mask, data) ==
  LET acc[i \in 0 .. LANES] ==
        IF i = 0 THEN [w_len |-> 0, data |-> data, runs |-> <<>>]
        ELSE IF i - 1 \in mask THEN [acc[i - 1] EXCEPT !.w_len = @ + 1]
        ELSE SkipLane(acc[i - 1], i - 1)
      last == acc[LANES]
  IN IF last.w_len = 0 THEN last.runs
     ELSE Append(last.runs, Run(LANES - last.w_len, last.w_len, last.data))

\* host_write (include/memory/host.h) of one run; it asserts that the length
\* is one of a C integer.
Writable(run) == run.len \in {1, 2, 4, 8}

host_write(word, run) ==
  [l \in Lane |-> IF l \in run.at .. run.at + run.len - 1
                  THEN run.data[l - run.at] ELSE word[l]]

\* The runs one after the other, into memory.
WriteAll(word, runs) ==
  LET after[k \in 0 .. Len(runs)] ==
        IF k = 0 THEN word ELSE host_write(after[k - 1], runs[k])
  IN after[Len(runs)]
-----------------------------------------------------------------------------
\* A masked write that is carried out changes the bytes under the mask to
\* those in the same lanes of the data, and no others, however many runs the
\* mask has (pmem.cpp:38); only a run of an odd length is refused.
MaskedWriteByLane(word, mask, data) ==
  LET runs == WriteRuns(mask, data)
  IN (\A k \in DOMAIN runs : Writable(runs[k])) =>
       WriteAll(word, runs) = [l \in Lane |-> IF l \in mask THEN data[l] ELSE word[l]]
=============================================================================

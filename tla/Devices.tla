------------------------------ MODULE Devices ------------------------------
(***************************************************************************)
(* What is behind the memory controller: memory (verilator/src/memory),    *)
(* the dispatch of an address to a device (device/io) and the devices      *)
(* (device/), which device_update and the accesses of the program drive.   *)
(*                                                                         *)
(* The ring of key events is KeyQueue.  The program's side is LSHandler:   *)
(* it makes one access at a time.  A read is a wire, not a call: MemRead.v *)
(* evaluates nmem_read, with its side effects, again and again as long as  *)
(* the address is there (and that is until the next one).                  *)
(***************************************************************************)
EXTENDS KeyQueue, ByteLanes

CONSTANTS
  MaxTime,     \* bound of the host's clock
  MaxTyped,    \* bound of the keys typed
  Stored,      \* data that the program stores
  UseSets      \* sets of regions; a program uses one of them

Ram == {"pmem", "vmem"}
Device == {"serial", "rtc", "keyboard", "vgactl", "vmem"}

\* The Kconfig addresses, by their order; every region begins at a word.
\* The keyboard has half a word.  Nothing is at the last address.
MBASE == 0
Nowhere == 6 * LANES
maps ==
  << [name |-> "serial", low |-> 1 * LANES, high |-> 2 * LANES - 1],
     [name |-> "rtc", low |-> 2 * LANES, high |-> 3 * LANES - 1],
     [name |-> "keyboard", low |-> 3 * LANES, high |-> 3 * LANES + LANES \div 2 - 1],
     [name |-> "vgactl", low |-> 4 * LANES, high |-> 5 * LANES - 1],
     [name |-> "vmem", low |-> 5 * LANES, high |-> 6 * LANES - 1] >>
Addr == 0 .. Nowhere

\* add_mmio_map, init_device: no region overlaps memory or another one.
in_pmem(addr) == addr - MBASE \in 0 .. LANES - 1
ASSUME DeviceAssumption ==
  /\ LANES % 4 = 0 /\ \A size \in Sizes : LANES % size = 0
  /\ {MaxTime, MaxTyped} \subseteq Nat
  /\ Stored \subseteq Data
  /\ UseSets \subseteq SUBSET (Ram \cup Device \cup {"nothing"})
  /\ \A i, j \in DOMAIN maps :
       /\ ~in_pmem(maps[i].low) /\ ~in_pmem(maps[i].high)
       /\ maps[i].low <= maps[j].high /\ maps[i].high >= maps[j].low => i = j

VARIABLES
  uses,        \* the regions that this program uses
  pmem,
  space,       \* the registers of the devices, but for the keyboard's port
  time,        \* get_time()
  out,         \* the last character on stderr
  running,     \* npc_state.state is NPC_RUNNING, not NPC_QUIT
  aborted,     \* an assertion about an access has failed
  r_araddr,    \* the address at MemRead, or Nowhere
  pending,     \* the load that waits for its data, or none
  r_rdata,     \* what nmem_read returned last; for the keyboard, the port
  access,      \* history: the last access to memory that was finished
  typed, delivered,  \* history: keys typed, and keys that the program read
  lost         \* history: a key that was taken for no load has been replaced

devVars == <<uses, pmem, space, time, out, running, aborted, r_araddr,
             pending, r_rdata, access, typed, delivered, lost>>
allVars == <<devVars, vars>>

NoLoad == [size |-> 0]

\* A number in the lanes of a word.
Bits(number) ==
  LET rest[l \in Lane] == IF l = 0 THEN number ELSE rest[l - 1] \div BYTE
  IN [l \in Lane |-> rest[l] % BYTE]

DevTypeOK ==
  /\ TypeOK
  /\ pmem \in Data
  /\ space \in [Device \ {"keyboard"} -> Data]
  /\ time \in 0 .. MaxTime
  /\ out \in Byte
  /\ {running, aborted, lost} \subseteq BOOLEAN
  /\ r_araddr \in Addr
  /\ r_rdata \in Data \cup Keys \cup {KEY_NONE}

DevInit ==
  /\ Init
  /\ uses \in UseSets
  /\ pmem = ZeroData
  /\ space = [d \in Device \ {"keyboard"} |-> ZeroData]
  /\ time = 0
  /\ out = 0
  /\ running = TRUE
  /\ aborted = FALSE
  /\ r_araddr = Nowhere
  /\ pending = NoLoad
  /\ r_rdata = KEY_NONE
  /\ access = [op |-> "none"]
  /\ typed = <<>> /\ delivered = <<>>
  /\ lost = FALSE

Alive == running /\ ~aborted /\ ~failed
-----------------------------------------------------------------------------
\* find_mapid_by_addr: the region of an address, if there is one.
Region(addr) ==
  IF in_pmem(addr) THEN "pmem"
  ELSE IF \E i \in DOMAIN maps : addr \in maps[i].low .. maps[i].high
       THEN maps[CHOOSE i \in DOMAIN maps : addr \in maps[i].low .. maps[i].high].name
  ELSE "nothing"

Offset(addr) == addr % LANES

\* nmem_read: the whole word; the time is taken, and a key is taken from the
\* queue, whatever part of the word the program wants.
nmem_read(addr) ==
  LET region == Region(addr)
  IN \/ /\ region = "pmem"
        /\ r_rdata' = pmem
        /\ UNCHANGED <<vars, space>>
     \/ /\ region = "keyboard"
        /\ i8042_read
        /\ r_rdata' = port'
        /\ UNCHANGED space
     \/ /\ region = "rtc"
        /\ space' = [space EXCEPT !.rtc = Bits(time)]
        /\ r_rdata' = space'.rtc
        /\ UNCHANGED vars
     \/ /\ region \in {"serial", "vgactl", "vmem"}
        /\ r_rdata' = space[region]
        /\ UNCHANGED <<vars, space>>
     \/ /\ region = "nothing"
        /\ r_rdata' = ZeroData
        /\ UNCHANGED <<vars, space>>

\* A key that has been taken from the queue and not been read by the program;
\* the next evaluation replaces it.
KeyOnWire == Region(r_araddr) = "keyboard" /\ r_rdata \in Keys

\* A load: its address comes to MemRead, which is evaluated.
StartLoad ==
  /\ Alive
  /\ pending = NoLoad
  /\ \E addr \in Addr, size \in Sizes, signed \in BOOLEAN :
       /\ Region(addr) \in uses
       /\ r_araddr' = addr
       /\ pending' = [addr |-> addr, size |-> size, signed |-> signed]
       /\ nmem_read(addr)
  /\ lost' = (lost \/ KeyOnWire)
  /\ UNCHANGED <<uses, pmem, time, out, running, aborted, access, typed, delivered>>

\* MemRead is evaluated in another clock cycle.
Reevaluate ==
  /\ Alive
  /\ r_araddr # Nowhere
  /\ nmem_read(r_araddr)
  /\ lost' = (lost \/ KeyOnWire)
  /\ UNCHANGED <<uses, pmem, time, out, running, aborted, r_araddr, pending,
                 access, typed, delivered>>

\* The response; the program gets its bytes of the word, or the key.  The
\* address stays, which matters for the port of the keyboard alone.
FinishLoad ==
  /\ Alive
  /\ pending # NoLoad
  /\ pending' = NoLoad
  /\ IF Region(pending.addr) \in Ram
     THEN access' = [op |-> "load", addr |-> pending.addr, size |-> pending.size,
                     signed |-> pending.signed,
                     data |-> LoadData(pending.size, pending.signed, Offset(pending.addr), r_rdata)]
     ELSE UNCHANGED access
  /\ delivered' = IF Region(pending.addr) = "keyboard" /\ r_rdata \in Keys
                  THEN Append(delivered, r_rdata) ELSE delivered
  /\ r_araddr' = IF Region(pending.addr) = "keyboard" THEN r_araddr ELSE Nowhere
  /\ r_rdata' = KEY_NONE
  /\ UNCHANGED <<vars, uses, pmem, space, time, out, running, aborted, typed, lost>>
-----------------------------------------------------------------------------
\* The callbacks of a write of one run of bytes, behind host_write into the
\* region: serial_io_handler sends single bytes at offset 0, rtc_io_handler
\* and i8042_data_io_handler check what they are asked for.
serial_io_handler(run) ==
  /\ aborted' = (run.len = 1 /\ run.at # 0)
  /\ out' = IF run.len = 1 /\ run.at = 0 THEN run.data[0] ELSE out

WriteCallback(region, run) ==
  \/ region = "serial" /\ serial_io_handler(run)
  \/ region = "rtc" /\ aborted' = (run.at \notin {0, LANES \div 2}) /\ UNCHANGED out
  \/ region = "keyboard" /\ aborted' = TRUE /\ UNCHANGED out
  \/ region \in {"vgactl", "vmem"} /\ UNCHANGED <<out, aborted>>

\* A store.  The mask of LSHandler is one run.  A run that a map does not
\* hold (the other half of the keyboard's word) has no address in it.
nmem_write(addr, mask, data) ==
  LET region == Region(addr)
      run == WriteRuns(mask, data)[1]
  IN \/ /\ region = "pmem"
        /\ pmem' = WriteAll(pmem, WriteRuns(mask, data))
        /\ UNCHANGED <<space, out, aborted>>
     \/ /\ region \in Device
        /\ space' = IF region = "keyboard" THEN space
                    ELSE [space EXCEPT ![region] = host_write(@, run)]
        /\ WriteCallback(region, run)
        /\ UNCHANGED pmem
     \/ /\ region = "nothing"
        /\ UNCHANGED <<pmem, space, out, aborted>>

Store ==
  /\ Alive
  /\ pending = NoLoad
  /\ \E addr \in Addr, size \in Sizes, data \in Stored :
       /\ Region(addr) \in uses
       /\ nmem_write(addr, StoreMask(size, Offset(addr)), StoreData(size, data))
       /\ access' = IF Region(addr) \in Ram
                    THEN [op |-> "store", addr |-> addr, size |-> size, data |-> data]
                    ELSE access
  /\ UNCHANGED <<vars, uses, time, running, r_araddr, pending, r_rdata, typed,
                 delivered, lost>>
-----------------------------------------------------------------------------
\* The clock of the host.
Tick ==
  /\ time < MaxTime
  /\ "rtc" \in uses
  /\ time' = time + 1
  /\ UNCHANGED <<vars, uses, pmem, space, out, running, aborted, r_araddr, pending,
                 r_rdata, access, typed, delivered, lost>>

\* vga_update_screen: the frame is shown when the program asks for it.
Sync == [l \in Lane |-> IF l = LANES \div 2 THEN 1 ELSE 0]
SyncAsked == \A l \in LANES \div 2 .. LANES - 1 : space.vgactl[l] = Sync[l]

vga_update_screen ==
  IF SyncAsked
  THEN space' = [space EXCEPT !.vgactl =
                   [l \in Lane |-> IF l >= LANES \div 2 THEN 0 ELSE @[l]]]
  ELSE UNCHANGED space

\* device_update, when a 60th of a second has passed: the screen, and then an
\* event of the window, a key (of those that are mapped) or its closing.
\* More events are one more call.
device_update ==
  /\ Alive
  /\ vga_update_screen
  /\ \/ /\ running' = FALSE
        /\ UNCHANGED <<vars, typed>>
     \/ /\ "keyboard" \in uses
        /\ Len(typed) < MaxTyped
        /\ \E key \in Keys : key_enqueue(key) /\ typed' = Append(typed, key)
        /\ UNCHANGED running
     \/ UNCHANGED <<vars, typed, running>>
  /\ UNCHANGED <<uses, pmem, time, out, aborted, r_araddr, pending, r_rdata, access, delivered, lost>>

DevNext == StartLoad \/ Reevaluate \/ FinishLoad \/ Store \/ Tick \/ device_update

DevSpec == DevInit /\ [][DevNext]_allVars
-----------------------------------------------------------------------------
(***************************************************************************)
(* Correctness.                                                            *)
(***************************************************************************)

\* Memory and the frame buffer, bytes side by side.
RamAddr == {addr \in Addr : Region(addr) \in Ram}
Memory == INSTANCE ByteMemory WITH
  Address <- RamAddr,
  bytes <- [addr \in RamAddr |->
              IF Region(addr) = "pmem" THEN pmem[Offset(addr)] ELSE space.vmem[Offset(addr)]]

\* Through the lanes of LSHandler, the mask, its runs and the choice of the
\* region, loads and stores of every size are those of an array of bytes.
ImplementsBytes == Memory!Spec

\* Typed keys in their order, each at most once.
InOrder ==
  \E place \in [DOMAIN delivered -> DOMAIN typed] :
    /\ \A i \in DOMAIN delivered : delivered[i] = typed[place[i]]
    /\ \A i, j \in DOMAIN delivered : i < j => place[i] < place[j]

\* The keys that a program reads are keys that were typed, in their order and
\* each at most once, although a read is evaluated several times and takes a
\* key from the queue each time (keyboard.cpp:64).  A key is missing only when
\* an evaluation took it and another one replaced it before it was read: until
\* then the program has read the first ones typed, whatever the queue and its
\* end did.
KeysInOrder ==
  /\ InOrder
  /\ ~lost => \A i \in DOMAIN delivered : delivered[i] = typed[i]
=============================================================================

------------------------------- MODULE NodeConfig ------------------------------
(***************************************************************************)
(* The configuration memory of the example node (hnode.c): regions made of *)
(* segments of one array, which requests of a configuration program read,  *)
(* write and erase.  Addresses and lengths are in bytes; the array is kept *)
(* in cells of CellSize bytes, each filled with one value, and requests    *)
(* carry whole cells.  A definition commented "Slip:" is not the code but  *)
(* a plausible mistake in it.                                              *)
(***************************************************************************)
EXTENDS Integers, Sequences, FiniteSets

CONSTANTS
    CellSize,       \* divides the sector size, 512
    Addresses,      \* the addresses that requests name
    Lengths,        \* the lengths that requests name, multiples of CellSize
    Values,         \* the bytes that requests write
    MaxChanges      \* bound: writes and erases

ASSUME CellAssumption ==
    /\ CellSize \in 1..512 /\ 512 % CellSize = 0
    /\ Addresses \subseteq Nat
    /\ Lengths \subseteq Nat /\ \A n \in Lengths : n % CellSize = 0

VARIABLES
    gNodeMem,       \* the array, by cell
    reply,          \* the last reply sent
    changes,        \* number of writes and erases done
    flash           \* history: the memory a configuration program believes in,
                    \* by store and address

memVars == <<gNodeMem, reply, changes, flash>>

Erased == 255
Initial == 256       \* not a byte: what hnode_init_config_store left

--------------------------------------------------------------------------------
(* The tables.                                                             *)

Segment(address, length, offset) ==
    [Address |-> address, Length |-> length, DataPtr |-> offset]

HNCFG_REGNAME_BASE_PRG == 0
HNCFG_REGNAME_BASE_CFG == 1
HNCFG_REGNAME_APP_PRG  == 2
HNCFG_REGNAME_APP_CFG  == 3
HNCFG_REGNAME_DUMP     == 4
HNCFG_REGNAME_FENCE    == 5

Regions == HNCFG_REGNAME_BASE_PRG..HNCFG_REGNAME_DUMP

AppPrgSegments == <<Segment(33280, 512, 1024), Segment(33792, 8192, 2048)>>

\* Slip: the long program segment starts one sector early.
SegmentsOverlapping(r) ==
    CASE r = HNCFG_REGNAME_BASE_PRG -> <<Segment(4096, 512, 0)>>
      [] r = HNCFG_REGNAME_BASE_CFG -> <<Segment(0, 512, 512)>>
      [] r = HNCFG_REGNAME_APP_CFG  -> <<Segment(5632, 512, 1536)>>
      [] OTHER -> <<Segment(33280, 512, 1024), Segment(33792, 8192, 1536)>>

\* gNodeRegionSegments: the dump region shows the application program.
RegionSegments(r) ==
    CASE r = HNCFG_REGNAME_BASE_PRG -> <<Segment(4096, 512, 0)>>
      [] r = HNCFG_REGNAME_BASE_CFG -> <<Segment(0, 512, 512)>>
      [] r = HNCFG_REGNAME_APP_PRG  -> AppPrgSegments
      [] r = HNCFG_REGNAME_APP_CFG  -> <<Segment(5632, 512, 1536)>>
      [] r = HNCFG_REGNAME_DUMP     -> AppPrgSegments

\* gNodeMemoryRegions gives every region the same alignment and size.
AccessAlignment == 512
AccessSize == 512

Within(s, address) == address >= s.Address /\ address < s.Address + s.Length

CellAt(s, address) == (s.DataPtr + address - s.Address) \div CellSize

Cells(s, address, length) == {CellAt(s, address) + i : i \in 0..(length \div CellSize - 1)}

--------------------------------------------------------------------------------
(* hnode_check_memory_access: the result, and the segment when it is "OK".  *)

Denied(result) == [result |-> result, segment |-> <<>>]

check_memory_access(region, address, length) ==
    IF region >= HNCFG_REGNAME_FENCE THEN Denied("ACCESS_OUT_OF_BOUNDS")
    ELSE LET segs == RegionSegments(region)
             hit  == {i \in DOMAIN segs : Within(segs[i], address)}
         IN  IF hit = {} THEN Denied("BAD_ADDRESS")
             ELSE LET s == segs[CHOOSE i \in hit : \A j \in hit : i <= j]
                  IN  CASE length > AccessSize -> Denied("TOO_LONG")
                        [] length <= AccessSize /\ address % AccessAlignment # 0
                             -> Denied("MISALIGNED_ADDRESS")
                        [] length <= AccessSize /\ address % AccessAlignment = 0
                           /\ address + length > s.Address + s.Length
                             -> Denied("ACCESS_OUT_OF_BOUNDS")
                        [] OTHER -> [result |-> "OK", segment |-> <<s>>]

--------------------------------------------------------------------------------
(* The memory a configuration program believes in: by store and address, the  *)
(* dump region being a second view of the application program.               *)

Store(r) == IF r = HNCFG_REGNAME_DUMP THEN HNCFG_REGNAME_APP_PRG ELSE r

CellAddresses(s) == {s.Address + i * CellSize : i \in 0..(s.Length \div CellSize - 1)}

StoreAddresses(r) ==
    UNION {CellAddresses(RegionSegments(r)[i]) : i \in DOMAIN RegionSegments(r)}

MemInit ==
    /\ gNodeMem = [i \in 0..(10240 \div CellSize - 1) |-> Initial]
    /\ reply = [type |-> "none"]
    /\ changes = 0
    /\ flash = [x \in UNION {{r} \X StoreAddresses(r) : r \in Regions \ {HNCFG_REGNAME_DUMP}}
                  |-> Initial]

--------------------------------------------------------------------------------
(* hnode_config_rx, one action per request.                                *)

Serving == reply.type # "crashed"

Reply(type, result) == reply' = [type |-> type, result |-> result]

InfoReq ==
    /\ reply' = [type |-> "INFO", RegionCnt |-> Cardinality(Regions)]
    /\ UNCHANGED <<gNodeMem, changes, flash>>

\* The index is refused when it is greater than the number of regions.  For the
\* number itself the code reads past the table: it may send what it finds there,
\* or crash on it.
RegMapReq(region) ==
    /\ \/ region > Cardinality(Regions) /\ Reply("REGMAP", "ERROR")
       \/ /\ region \in Regions
          /\ reply' = [type |-> "REGMAP", segments |-> RegionSegments(region)]
       \/ /\ region = Cardinality(Regions)
          /\ \/ Reply("REGMAP", "anything")
             \/ reply' = [type |-> "crashed"]
    /\ UNCHANGED <<gNodeMem, changes, flash>>

ReadMemReq(region, address, length) ==
    /\ LET access == check_memory_access(region, address, length)
       IN  IF access.result = "OK"
           THEN reply' = [type |-> "DATA", region |-> region, address |-> address,
                          data |-> [i \in 0..(length \div CellSize - 1) |->
                              gNodeMem[CellAt(access.segment[1], address) + i]]]
           ELSE Reply("READMEM", access.result)
    /\ UNCHANGED <<gNodeMem, changes, flash>>

\* hnode_erase_region: every segment of the region, by memset.
EraseMemReq(region) ==
    /\ IF region >= HNCFG_REGNAME_FENCE
       THEN /\ Reply("ERASEMEM", "ACCESS_OUT_OF_BOUNDS")
            /\ UNCHANGED <<gNodeMem, changes, flash>>
       ELSE LET segs  == RegionSegments(region)
                cells == UNION {Cells(segs[i], segs[i].Address, segs[i].Length) :
                                    i \in DOMAIN segs}
            IN  /\ changes < MaxChanges
                /\ changes' = changes + 1
                /\ gNodeMem' = [i \in DOMAIN gNodeMem |->
                                    IF i \in cells THEN Erased ELSE gNodeMem[i]]
                /\ flash' = [x \in DOMAIN flash |->
                                IF x[1] = Store(region) THEN Erased ELSE flash[x]]
                /\ Reply("ERASEMEM", "OK")

\* No erased state is asked for: g_hnode_erased_check is called by no code.
WriteMemReq(region, address, length, value) ==
    LET access == check_memory_access(region, address, length)
    IN  IF access.result # "OK"
        THEN /\ Reply("WRITEMEM", access.result)
             /\ UNCHANGED <<gNodeMem, changes, flash>>
        ELSE LET cells == Cells(access.segment[1], address, length)
             IN  /\ changes < MaxChanges
                 /\ changes' = changes + 1
                 /\ gNodeMem' = [i \in DOMAIN gNodeMem |->
                                    IF i \in cells THEN value ELSE gNodeMem[i]]
                 /\ flash' = [x \in DOMAIN flash |->
                                IF x[1] = Store(region) /\ x[2] \in address..(address + length - 1)
                                THEN value ELSE flash[x]]
                 /\ Reply("WRITEMEM", "OK")

MemNext ==
    /\ Serving
    /\ \/ InfoReq
       \/ \E region \in 0..(HNCFG_REGNAME_FENCE + 1) :
            \/ RegMapReq(region) \/ EraseMemReq(region)
            \/ \E address \in Addresses, length \in Lengths :
                \/ ReadMemReq(region, address, length)
                \/ \E value \in Values : WriteMemReq(region, address, length, value)

MemSpec == MemInit /\ [][MemNext]_memVars

--------------------------------------------------------------------------------
(* Properties.                                                             *)

\* The segments of the one array never run into each other: after any sequence of
\* requests, refused and aliased ones among them, each address of each region holds
\* what was last written or erased there, and a read reports just that.
\* (hnode.c, gNodeRegionSegments, hnode_check_memory_access, hnode_config_rx)
RegionsKeepTheirData ==
    /\ \A r \in Regions : \A i \in DOMAIN RegionSegments(r) :
        LET s == RegionSegments(r)[i]
        IN  \A a \in CellAddresses(s) : gNodeMem[CellAt(s, a)] = flash[<<Store(r), a>>]
    /\ reply.type = "DATA" =>
        \A i \in DOMAIN reply.data :
            reply.data[i] = flash[<<Store(reply.region), reply.address + i * CellSize>>]
================================================================================

---------------------------- MODULE LinearMemory ----------------------------
(***************************************************************************)
(* The linear memory of a module: its growth, and the translation between  *)
(* addresses of the module and of the host (wasm_memory.c).                *)
(*                                                                         *)
(* A native address is its distance from memory_data.                      *)
(***************************************************************************)
EXTENDS Numerics

CONSTANT PageBytes      \* DEFAULT_NUM_BYTES_PER_PAGE: 65536

UInt32Max == 2 ^ Bits("i32") - 1

(* DEFAULT_MAX_PAGES: as many pages as fill the whole address space.       *)
MaxPages == (UInt32Max + 1) \div PageBytes

ASSUME PageAssumption == PageBytes \in Nat \ {0} /\ MaxPages * PageBytes = UInt32Max + 1

Size(m) == m.cur_page_count * m.num_bytes_per_page

(* memory_instantiate                                                      *)
Instantiated(cur, max) ==
  [data |-> [a \in 0..(cur * PageBytes - 1) |-> 0], cur_page_count |-> cur,
   max_page_count |-> max, num_bytes_per_page |-> PageBytes]

-----------------------------------------------------------------------------
(* wasm_enlarge_memory *)

(* Mutant: what realloc returns is taken as it is.                         *)
NotZeroed(m, size) ==
  [a \in 0..(size - 1) |-> IF a \in DOMAIN m.data THEN m.data[a] ELSE 1]

(* The bytes from the old size on are zero.                                *)
Zeroed(m, size) ==
  [a \in 0..(size - 1) |-> IF a \in DOMAIN m.data THEN m.data[a] ELSE 0]

Resized(m, total, page, max) ==
  [data |-> Zeroed(m, total * page), cur_page_count |-> total,
   max_page_count |-> max, num_bytes_per_page |-> page]

(* A size of 2^32 does not fit: the memory becomes a single page of        *)
(* UINT32_MAX bytes.                                                       *)
TotalPages(m, inc) == (inc + m.cur_page_count) % (UInt32Max + 1)
TooLarge(m, inc) == m.num_bytes_per_page * TotalPages(m, inc) > UInt32Max
Enlarged(m, inc) ==
  IF TooLarge(m, inc) THEN Resized(m, 1, UInt32Max, 1)
  ELSE Resized(m, TotalPages(m, inc), m.num_bytes_per_page, m.max_page_count)

(* Mutant: the limit is compared with the increment alone.                 *)
MayEnlargeBy(m, inc) == inc <= m.max_page_count

MayEnlarge(m, inc) == TotalPages(m, inc) <= m.max_page_count

(* The count of the pages wraps: memset is given a negative length ...     *)
Wraps(m, inc) == inc > 0 /\ MayEnlarge(m, inc) /\ TotalPages(m, inc) < m.cur_page_count

(* ... unless it wraps to no page at all: a realloc to no bytes frees the  *)
(* memory and returns NULL, and memory_data is left to point there.        *)
Vanishes(m, inc) == inc > 0 /\ TotalPages(m, inc) = 0

-----------------------------------------------------------------------------
(* Addresses *)

Nowhere == -1    \* NULL

(* Mutant: the end of the range is computed in 32 bits and not checked.    *)
ValidateAppAddrWrapping(m, app, n) == (app + n) % (UInt32Max + 1) <= Size(m)

ValidateAppAddr(m, app, n) == app <= UInt32Max - n /\ app + n <= Size(m)
AppToNative(m, app) == IF app < Size(m) THEN app ELSE Nowhere

NativeToApp(m, native) == IF native \in 0..(Size(m) - 1) THEN native ELSE 0
ValidateNativeAddr(m, native, n) == native >= 0 /\ native + n <= Size(m)

-----------------------------------------------------------------------------
(* Bytes of a number, the least significant first.                         *)

ByteOf(v, i) == (v \div 2 ^ (ByteBits * i)) % 2 ^ ByteBits

NumberAt(m, ea, bytes) ==
  LET sum[i \in 0..bytes] ==
        IF i = 0 THEN 0
        ELSE sum[i - 1] + m.data[ea + i - 1] * 2 ^ (ByteBits * (i - 1))
  IN sum[bytes]

Within(m, ea, bytes) == ea + bytes <= Size(m)

Written(m, ea, bytes, byte) ==
  [m EXCEPT !.data = [a \in DOMAIN @ |-> IF a \in ea..(ea + bytes - 1) THEN byte[a - ea] ELSE @[a]]]
=============================================================================

-------------------------------- MODULE Heap --------------------------------
(***************************************************************************)
(* The allocator of utils.c (myalloc, myfree, myrealloc, free_rest) over   *)
(* the one of the C library, and the strings that go past it.              *)
(*                                                                         *)
(* alloced_mems lists the blocks of myalloc, so that main can free at the  *)
(* end what nobody did.  myfree goes through the whole list with one loop, *)
(* a step of which is an action here, and removes what it finds while it   *)
(* goes.  string_from takes its block from myalloc and free_string gives   *)
(* it back to free; list_copy and string_push hand a block of myalloc to   *)
(* realloc: the entry stays.                                               *)
(*                                                                         *)
(* The rest of the compiler is free in when it allocates and frees, but    *)
(* frees only what it holds until main cleans up; then some pointers are   *)
(* freed twice, as nodes, symbols and tokens share their names.  myrealloc *)
(* is myfree and then myalloc.                                             *)
(***************************************************************************)
EXTENDS Integers, Sequences, SequencesExt

CONSTANTS
  Addresses,   \* where malloc can put a block
  None,
  MaxEntries   \* a bound: the length of alloced_mems

ASSUME NoneAssumption == None \notin Addresses
ASSUME MaxEntriesAssumption == MaxEntries \in Nat

VARIABLES
  phase,          \* work, cleanup (the labels at the end of main), rest, done
  live,           \* the blocks that malloc has given out
  alloced_mems,
  held,           \* the blocks of myalloc, or that realloc has made of one,
                  \* that the compiler has and may free
  raw,            \* those it has straight from malloc
  scan,           \* the loop of myfree: the pointer and the index, from 1
  left,           \* the loop of free_rest: the entries it has not come to
  wild,           \* a free of no block, or a read past alloced_mems
  bypassed        \* history: a listed block was given back past the list

vars == <<phase, live, alloced_mems, held, raw, scan, left, wild, bypassed>>

NoScan == [ptr |-> None, at |-> 1]

\* Nothing is said of what comes after a wild access.
Idle == scan.ptr = None /\ ~wild
Scanning == scan.ptr # None /\ ~wild

\* init_my_allocator
Init ==
  /\ phase = "work"
  /\ live = {} /\ alloced_mems = <<>> /\ held = {} /\ raw = {}
  /\ scan = NoScan /\ left = 0
  /\ wild = FALSE /\ bypassed = FALSE

-----------------------------------------------------------------------------
\* Mutant of Registered: the block is not listed.
RegisteredNot(a) == alloced_mems
Registered(a) == Append(alloced_mems, a)

\* myalloc, for itself or in list_create, clone_str and string_from.
Myalloc(a) ==
  /\ phase = "work" /\ Idle
  /\ Len(alloced_mems) < MaxEntries
  /\ a \notin live
  /\ live' = live \union {a}
  /\ alloced_mems' = Registered(a)
  /\ held' = held \union {a}
  /\ UNCHANGED <<phase, raw, scan, left, wild, bypassed>>

\* A call of myfree: the loop begins.
Myfree(p) ==
  /\ Idle
  /\ \/ phase = "work" /\ p \in held
     \/ phase = "cleanup"
  /\ scan' = [ptr |-> p, at |-> 1]
  /\ held' = held \ {p}
  /\ UNCHANGED <<phase, live, alloced_mems, raw, left, wild, bypassed>>

\* The loop: past another block, ...
ScanPast ==
  /\ Scanning
  /\ scan.at <= Len(alloced_mems) /\ alloced_mems[scan.at] # scan.ptr
  /\ scan' = [scan EXCEPT !.at = @ + 1]
  /\ UNCHANGED <<phase, live, alloced_mems, held, raw, left, wild, bypassed>>

\* ... at the block: it is freed, its entry removed, and the index moves on
\* over what has moved up, ...
\* Mutant of Unlisted: the entry stays.
UnlistedNot(i) == alloced_mems
Unlisted(i) == RemoveAt(alloced_mems, i)
ScanHit ==
  /\ Scanning
  /\ scan.at <= Len(alloced_mems) /\ alloced_mems[scan.at] = scan.ptr
  /\ wild' = (wild \/ scan.ptr \notin live)
  /\ live' = live \ {scan.ptr}
  /\ alloced_mems' = Unlisted(scan.at)
  /\ scan' = [scan EXCEPT !.at = @ + 1]
  /\ UNCHANGED <<phase, held, raw, left, bypassed>>

\* ... and at the end.
ScanEnd ==
  /\ Scanning
  /\ scan.at > Len(alloced_mems)
  /\ scan' = NoScan
  /\ UNCHANGED <<phase, live, alloced_mems, held, raw, left, wild, bypassed>>

\* free_string on a string of string_from.
FreeString(p) ==
  /\ phase = "work" /\ Idle
  /\ p \in held
  /\ live' = live \ {p}
  /\ held' = held \ {p}
  /\ bypassed' = TRUE
  /\ UNCHANGED <<phase, alloced_mems, raw, scan, left, wild>>

\* list_copy into a list of list_create, and string_push on a string of
\* string_from: realloc returns the block that it was given, or moves it.
Realloc(p, a) ==
  /\ phase = "work" /\ Idle
  /\ p \in held /\ a \notin live \ {p}
  /\ live' = (live \ {p}) \union {a}
  /\ held' = (held \ {p}) \union {a}
  /\ bypassed' = (bypassed \/ a # p)
  /\ UNCHANGED <<phase, alloced_mems, raw, scan, left, wild>>

\* Source texts, paths and lines of assembly come from malloc and go to free.
Malloc(a) ==
  /\ phase = "work" /\ Idle
  /\ a \notin live
  /\ live' = live \union {a}
  /\ raw' = raw \union {a}
  /\ UNCHANGED <<phase, alloced_mems, held, scan, left, wild, bypassed>>
Free(a) ==
  /\ phase \in {"work", "cleanup"} /\ Idle
  /\ a \in raw
  /\ wild' = (wild \/ a \notin live)
  /\ live' = live \ {a}
  /\ raw' = raw \ {a}
  /\ UNCHANGED <<phase, alloced_mems, held, scan, left, bypassed>>

-----------------------------------------------------------------------------
\* main comes to its labels, and then to free_rest.
CleanUp ==
  /\ phase = "work" /\ Idle
  /\ phase' = "cleanup"
  /\ UNCHANGED <<live, alloced_mems, held, raw, scan, left, wild, bypassed>>
FreeRest ==
  /\ phase = "cleanup" /\ Idle
  /\ phase' = "rest"
  /\ left' = Len(alloced_mems)
  /\ UNCHANGED <<live, alloced_mems, held, raw, scan, wild, bypassed>>

\* Its loop, from the last entry to the first; mem_list_get gives NULL for an
\* entry that is no longer there, and NULL is read.
\* Mutant of LeftAfter: the loop goes in steps of two.
LeftAfterTwo == left - 2
LeftAfter == left - 1
RestNext ==
  /\ phase = "rest" /\ Idle
  /\ left > 0
  /\ LET gone == left \notin 1 .. Len(alloced_mems)
     IN  /\ wild' = gone
         /\ scan' = [ptr |-> IF gone THEN None ELSE alloced_mems[left], at |-> 1]
  /\ left' = LeftAfter
  /\ held' = held \ {scan'.ptr}
  /\ UNCHANGED <<phase, live, alloced_mems, raw, bypassed>>
RestEnd ==
  /\ phase = "rest" /\ Idle
  /\ left = 0
  /\ phase' = "done"
  /\ alloced_mems' = <<>>
  /\ UNCHANGED <<live, held, raw, scan, left, wild, bypassed>>

Next ==
  \/ \E a \in Addresses : Myalloc(a) \/ Myfree(a) \/ FreeString(a) \/ Malloc(a) \/ Free(a)
  \/ \E p, a \in Addresses : Realloc(p, a)
  \/ ScanPast \/ ScanHit \/ ScanEnd
  \/ CleanUp \/ FreeRest \/ RestNext \/ RestEnd

Spec == Init /\ [][Next]_vars

-----------------------------------------------------------------------------
TypeOK ==
  /\ phase \in {"work", "cleanup", "rest", "done"}
  /\ live \subseteq Addresses
  /\ alloced_mems \in Seq(Addresses)
  /\ held \subseteq Addresses
  /\ raw \subseteq Addresses
  /\ scan \in [ptr : Addresses \union {None}, at : Nat \ {0}]
  /\ left \in Nat
  /\ wild \in BOOLEAN /\ bypassed \in BOOLEAN

\* free is only called with blocks, and free_rest finds every entry it looks
\* for, however the frees of the program and of cleanup are mixed: unless a
\* listed block was given back past the list, by free_string (utils.c:258), as
\* preprocess_tokens does at every include, or by a realloc that moved it
\* (utils.c:160, 240), as sematic.c:698 may for every block of statements.
NoWildFree == ~bypassed => ~wild

\* The frees of others never take a block that the program still holds.
HeldAreLive == ~bypassed => held \union raw \subseteq live

\* What is left when free_rest has gone through its list (utils.c:204) is what
\* went past the allocator.
NothingLeft == phase = "done" /\ ~bypassed => live = raw
=============================================================================

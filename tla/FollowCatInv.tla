---------------------------- MODULE FollowCatInv ----------------------------
(***************************************************************************)
(* The inductive invariant of sub0log-cat: what the program was asked,     *)
(* what a scan has read, and what its cursor and its output say about it.  *)
(***************************************************************************)
EXTENDS FollowCat

WorldInv ==
  /\ content \in [Paths -> Segments \cup {NoFile}]
  /\ visible \in [Segments -> SUBSET UNION {All(s) : s \in Segments}]
  /\ \A s \in Segments : visible[s] \subseteq All(s)
  /\ cancelled \in Nat

Request ==
  [inputs : Seq(Paths \cup {Dir}), minimum : Nat, subsystems : SUBSET Nat,
   correlation : Nat \cup {NoFilter}, waitMs : Nat \cup {NoWait},
   argUint : [index : Nat, value : Nat \cup {NoFilter}],
   maxFiles : Nat, maxInputBytes : Nat, maxRecords : Nat,
   maxOutputBytes : Nat, follow : BOOLEAN, helpOnly : BOOLEAN]

(* A program that waits follows.                                           *)
RequestInv ==
  /\ argv \in Seq(Argument)
  /\ opt \in Request
  /\ Waits => opt.follow
  /\ pc = "parse" => /\ out = <<>> /\ seen = {} /\ ~matched
                     /\ ~opt.helpOnly

(* The file being read is held by its segment, not by its name.            *)
FilesInv ==
  IF pc = "copy"
  THEN /\ Head(files) \in Segments /\ Tail(files) \in Seq(Paths)
       /\ early \subseteq visible[Head(files)]
  ELSE files \in Seq(Paths)

(* An image holds nothing its segment did not.                             *)
ImagesInv ==
  /\ images \in Seq([seg : Segments, items : SUBSET Nat, torn : BOOLEAN])
  /\ \A i \in DOMAIN images :
       images[i].items \subseteq visible[images[i].seg] \cap Items(images[i].seg)

Records == UNION {{MergedRecord(s, o) : o \in Offsets(s)} : s \in Segments}

MergedInv ==
  /\ merged \in Seq(Records)
  /\ \A k \in DOMAIN merged : merged[k].off \in visible[merged[k].seg]
  /\ next \in Nat \ {0}
  /\ pc \in {"read", "copy"} => next = 1 /\ merged = <<>>

(* The scan has been merged, and its records are being looked at or were.  *)
Shown == pc \in {"print", "pause"} \/ (pc = "exit" /\ exit = 0 /\ ~opt.helpOnly)

(* What the images hold is among the records or counted as undecodable.    *)
ShownInv ==
  Shown =>
    \A i \in DOMAIN images : \A o \in images[i].items \ {0} :
      \/ health.undecodable > 0
      \/ \E k \in DOMAIN merged : merged[k] = MergedRecord(images[i].seg, o)

(* The wanted records passed are printed, all of them at the end of a scan *)
(* unless a wait ended it with its first match.                            *)
PassedInv ==
  /\ Shown =>
       \A k \in DOMAIN merged :
         k < next /\ wanted(merged[k]) =>
           \/ Printed(merged[k].seg, merged[k].off)
           \/ Waits /\ matched
  /\ pc = "pause" => next > Len(merged) /\ ~(Waits /\ matched)
  /\ (pc = "exit" /\ exit = 0 /\ ~opt.helpOnly) => next > Len(merged)

KeyOf(s, o) == <<Headers[s].pid, Headers[s].generation, o>>
Wants(s, o) == wanted([seg |-> s, off |-> o])

OutInv ==
  /\ out \in Seq(Segments \X Nat)
  /\ \A i \in DOMAIN out :
       /\ out[i][2] \in visible[out[i][1]] \cap Offsets(out[i][1])
       /\ Wants(out[i][1], out[i][2])

(* The cursor knows what is printed, and of the wanted records nothing     *)
(* else, unless the program is about to end without having printed it.     *)
CursorInv ==
  /\ opt.follow =>
       /\ IsInjective(out)
       /\ \A i \in DOMAIN out : KeyOf(out[i][1], out[i][2]) \in seen
  /\ \A s \in Segments : \A o \in Offsets(s) :
       KeyOf(s, o) \in seen /\ Wants(s, o) =>
         Printed(s, o) \/ (pc = "exit" /\ exit # 0)

(* No record precedes one that the scan put before it, and those of a      *)
(* segment that the order leaves open stay in the order of their offsets.  *)
SortedInv ==
  \A j, k \in DOMAIN merged : j < k =>
    /\ ~Precedes(merged[k], merged[j])
    /\ \/ Precedes(merged[j], merged[k])
       \/ merged[j].seg = merged[k].seg /\ ReadOnce(merged[j].seg) =>
            merged[j].off < merged[k].off

Report ==
  [scans : BOOLEAN, records : Nat, emitted : Nat, inputErrorSeen : BOOLEAN,
   undecodable : Nat, unreadable : BOOLEAN]

(* A wait has printed nothing, or one line from a scan without damage.     *)
WaitInv ==
  /\ Waits \/ pc = "parse" =>
       /\ IF matched THEN /\ pc \in {"print", "exit"}
                          /\ Len(out) = 1 /\ next > Len(merged)
                     ELSE out = <<>>
       /\ \/ pc = "exit" /\ exit # 0
          \/ /\ ~health.unreadable /\ health.undecodable = 0
             /\ ~health.inputErrorSeen
  /\ health \in Report /\ health.emitted = Len(out)

(* The ways out.                                                           *)
ExitInv ==
  pc = "exit" =>
    /\ exit = 0 /\ ~opt.helpOnly => /\ opened /\ flushed = Len(out)
                                    /\ Waits => matched
    /\ exit = 3 => Waits /\ late /\ ~matched
    /\ exit > 128 => cancelled # 0

CatInv ==
  /\ WorldInv /\ RequestInv /\ FilesInv /\ ImagesInv /\ MergedInv
  /\ ShownInv /\ PassedInv /\ OutInv /\ CursorInv /\ SortedInv
  /\ WaitInv /\ ExitInv

=============================================================================

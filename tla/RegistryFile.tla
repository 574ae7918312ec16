---------------------------- MODULE RegistryFile ----------------------------
(***************************************************************************)
(* SessionRegistry.persist(): every call writes the image it serialised to *)
(* the one path registry.json.tmp and renames that over registry.json.     *)
(*                                                                         *)
(* fsp.writeFile opens the file with O_TRUNC, writes and closes it, each   *)
(* an asynchronous operation; the calls of different tools interleave      *)
(* there.  A file descriptor follows its file through a rename, so fd[p]   *)
(* says which file p writes: the one at the .tmp path, the one at          *)
(* registry.json, or one a later rename has unlinked.                      *)
(***************************************************************************)
EXTENDS Naturals, ToolCalls

CONSTANTS NoImage,      \* no serialised registry
          MaxFaults     \* bound on failing file operations

VARIABLES live,         \* registry.json
          tmp,          \* registry.json.tmp
          stage,        \* stage[p]: how far p's persist() has got
          fd,           \* fd[p]: the file p has open for writing
          img,          \* img[p]: what p serialised
          faults        \* file operations that have failed so far

fileVars == <<live, tmp, stage, fd, img, faults>>

-----------------------------------------------------------------------------
(* A file is absent, empty (just truncated), complete (it parses), or a    *)
(* mixture that does not parse.                                            *)
Absent   == [st |-> "absent", img |-> NoImage]
Empty    == [st |-> "empty",  img |-> NoImage]
Mixed    == [st |-> "mixed",  img |-> NoImage]
Full(i)  == [st |-> "full",   img |-> i]

FileOK(f, Image) ==
  f \in {Absent, Empty, Mixed} \/ (f.img \in Image /\ f = Full(f.img))

FileTypeOK(Image) ==
  /\ FileOK(live, Image)
  /\ FileOK(tmp, Image)
  /\ stage \in [Procs -> {"none", "open", "write", "rename", "chmod", "ok", "failed"}]
  /\ fd \in [Procs -> {"none", "tmp", "live", "unlinked"}]
  /\ img \in [Procs -> Image \cup {NoImage}]
  /\ \A p \in Procs : stage[p] # "none" => img[p] \in Image
  /\ faults \in Nat

FileInit ==
  /\ live = Absent
  /\ tmp = Absent
  /\ stage = [p \in Procs |-> "none"]
  /\ fd = [p \in Procs |-> "none"]
  /\ img = [p \in Procs |-> NoImage]
  /\ faults = 0

(* What writing image i from offset 0 makes of a file.  Over the bytes of  *)
(* another image the result parses only if it covers them.                 *)
Overwrite(f, i) ==
  IF f = Empty \/ f = Full(i) THEN {Full(i)} ELSE {Full(i), Mixed}

(* The synchronous part of persist(): the sessions map is serialised.      *)
StartPersist(p, i) ==
  /\ stage[p] = "none"
  /\ stage' = [stage EXCEPT ![p] = "open"]
  /\ img' = [img EXCEPT ![p] = i]
  /\ UNCHANGED <<live, tmp, fd>>

OpenLive(p) ==                \* mutant: registry.json is written in place
  /\ stage[p] = "open"
  /\ stage' = [stage EXCEPT ![p] = "write"]
  /\ fd' = [fd EXCEPT ![p] = "live"]
  /\ live' = Empty
  /\ UNCHANGED <<tmp, img, faults>>

OpenTmp(p) ==
  /\ stage[p] = "open"
  /\ stage' = [stage EXCEPT ![p] = "write"]
  /\ fd' = [fd EXCEPT ![p] = "tmp"]
  /\ tmp' = Empty
  /\ UNCHANGED <<live, img, faults>>

WriteTmp(p) ==
  /\ stage[p] = "write"
  /\ stage' = [stage EXCEPT ![p] = "rename"]
  /\ fd' = [fd EXCEPT ![p] = "none"]
  /\ tmp' \in (IF fd[p] = "tmp" THEN Overwrite(tmp, img[p]) ELSE {tmp})
  /\ live' \in (IF fd[p] = "live" THEN Overwrite(live, img[p]) ELSE {live})
  /\ UNCHANGED <<img, faults>>

(* The descriptors open on the .tmp file now write registry.json, and the  *)
(* file that was registry.json is unlinked.                                *)
Followed(f) == CASE f = "tmp" -> "live" [] f = "live" -> "unlinked" [] OTHER -> f

RenameTmp(p) ==
  /\ stage[p] = "rename"
  /\ tmp # Absent
  /\ live' = tmp
  /\ tmp' = Absent
  /\ fd' = [q \in Procs |-> Followed(fd[q])]
  /\ stage' = [stage EXCEPT ![p] = "chmod"]
  /\ UNCHANGED <<img, faults>>

(* rename rejects with ENOENT: another call has renamed the file away.     *)
RenameMissing(p) ==
  /\ stage[p] = "rename"
  /\ tmp = Absent
  /\ stage' = [stage EXCEPT ![p] = "failed"]
  /\ UNCHANGED <<live, tmp, fd, img, faults>>

ChmodLive(p) ==
  /\ stage[p] = "chmod"
  /\ stage' = [stage EXCEPT ![p] = "ok"]
  /\ UNCHANGED <<live, tmp, fd, img, faults>>

(* An operation of persist() rejects (no space, no descriptors, ...); a    *)
(* failing write may leave part of the image behind.                       *)
PersistFault(p) ==
  /\ faults < MaxFaults
  /\ faults' = faults + 1
  /\ stage[p] \in {"open", "write", "rename", "chmod"}
  /\ stage' = [stage EXCEPT ![p] = "failed"]
  /\ fd' = [fd EXCEPT ![p] = "none"]
  /\ tmp' \in (IF fd[p] = "tmp" THEN {tmp, Mixed} ELSE {tmp})
  /\ live' \in (IF fd[p] = "live" THEN {live, Mixed} ELSE {live})
  /\ UNCHANGED img

PersistStep(p) ==
  \/ OpenTmp(p)
  \/ WriteTmp(p)
  \/ RenameTmp(p)
  \/ RenameMissing(p)
  \/ ChmodLive(p)
  \/ PersistFault(p)

(* The awaiting tool has seen the outcome.                                 *)
EndPersist(p) ==
  /\ stage[p] \in {"ok", "failed"}
  /\ stage' = [stage EXCEPT ![p] = "none"]
  /\ img' = [img EXCEPT ![p] = NoImage]
  /\ UNCHANGED <<live, tmp, fd, faults>>

(* The coordinator dies: files stay as they are.                           *)
LoseProcesses ==
  /\ stage' = [p \in Procs |-> "none"]
  /\ fd' = [p \in Procs |-> "none"]
  /\ img' = [p \in Procs |-> NoImage]
  /\ UNCHANGED <<live, tmp, faults>>
=============================================================================

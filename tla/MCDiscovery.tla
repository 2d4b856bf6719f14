----------------------------- MODULE MCDiscovery -----------------------------
(***************************************************************************)
(* Instances of Discovery.                                                  *)
(*                                                                          *)
(* The graph has every shape the loops must cope with: a cycle (owner, pet), *)
(* a discriminated family two levels deep (pet, cat, lion), a plain embed    *)
(* that itself embeds (dead, audit, trail), an alias that queues itself      *)
(* (stamp), one that is also a model (tag), a model that refers to itself     *)
(* (note), a declaration only a dropped duplicate response reaches (lost),   *)
(* one whose key the caller's own specification already holds (pinned), and *)
(* one that only a discovered declaration refers to (addr).                  *)
(***************************************************************************)
EXTENDS Discovery, TLC

CONSTANTS pet, cat, lion, owner, audit, trail, stamp, dead, lost, leaf, tag, note, pinned, addr
CONSTANTS p1, p2, p3, p4, p5, p6, r1, r2, r3

mcDecl == {pet, cat, lion, owner, audit, trail, stamp, dead, lost, leaf, tag, note, pinned, addr}
mcParamDecl == {p1, p2, p3, p4, p5, p6}
mcRespOrder == <<r1, r2, r3>>
mcRespName == (r1 :> "ok") @@ (r2 :> "ok") @@ (r3 :> "error")

mcDefKey == [d \in mcDecl |-> d]

mcAnnotated == {pet, cat, lion, dead, leaf, tag, note}
mcAlias == {stamp, tag}
mcNodes == mcDecl \union {p1, p2, p3, p4, p5, p6, r1, r2, r3}
mcRefs == [n \in mcNodes |->
    CASE n = pet   -> {owner}
      [] n = cat   -> {pet}
      [] n = lion  -> {cat}
      [] n = owner -> {pet, pinned, addr}
      [] n = dead  -> {stamp}
      [] n = p1    -> {owner}
      [] n = p2    -> {stamp}
      [] n = note  -> {note, tag}
      [] n = p3    -> {lion}
      [] n = p5    -> {tag}
      [] n = p6    -> {note}
      [] n = r2    -> {lost}
      [] n = r3    -> {cat}
      [] OTHER     -> {}]
mcEmbeds == [n \in mcNodes |->
    CASE n = dead  -> {audit}
      [] n = audit -> {trail}
      [] n = owner -> {trail}
      [] n = note  -> {audit, stamp}
      [] n = p4    -> {trail}
      [] OTHER     -> {}]
mcBases == [d \in mcDecl |->
    CASE d = cat  -> {pet}
      [] d = lion -> {cat}
      [] d = leaf -> {pet}
      [] OTHER    -> {}]
mcDiscriminated == {pet, cat}
mcOverlay == {pinned}

Call(scan, panicking, failing) ==
    [scanModels |-> scan, panics |-> panicking, errs |-> failing]
mcScan == Call(TRUE, {}, {})
mcNoScan == Call(FALSE, {}, {})
\* Needed declarations that cannot be built: pet is found at once, owner late.
\* Then ones that are not needed: without ScanModels an embed, an unreferenced
\* model and what a dropped response uses.
mcInputs == {mcScan, mcNoScan, Call(TRUE, {trail}, {owner}),
             Call(FALSE, {pet}, {r2, dead}), Call(FALSE, {addr}, {}),
             Call(FALSE, {trail, dead}, {r2, lost})}
=============================================================================

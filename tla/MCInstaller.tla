----------------------------- MODULE MCInstaller -----------------------------
(***************************************************************************)
(* Bounds for Installer: two bundles, one of them listed in product.json;   *)
(* two Cursor releases and two toolkit builds, so that a file can be fresh, *)
(* patched, patched by an older build, or newer than its backup.            *)
(***************************************************************************)
EXTENDS Installer

TrackedFirst == {1}
=============================================================================

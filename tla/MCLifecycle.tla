---------------------------- MODULE MCLifecycle ----------------------------
(***************************************************************************)
(* Instances of the life cycle, and what the documentation says of it but  *)
(* the code does not keep.                                                 *)
(***************************************************************************)
EXTENDS Lifecycle

\* Nothing that uas.c would take for a call or a free cell.
NoIdGarbage == {Junk}

\* pool.h: pj_pool_release is for "when the application has finished using the
\* pool".
NoUseAfterRelease == crashed # "use_after_free"
=============================================================================

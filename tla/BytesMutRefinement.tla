------------------------- MODULE BytesMutRefinement -------------------------
(***************************************************************************)
(* BytesMut implements ByteStrings: the bytes of a handle are what it      *)
(* dereferences to, whatever allocation they are in.                       *)
(***************************************************************************)
EXTENDS BytesMut

\* A handle as its user sees it: its type and the bytes it dereferences to.
Obj == [h \in Handles |->
          IF InUse(h) THEN [ty |-> hd[h].ty, s |-> Slice(hd[h])] ELSE [ty |-> "none", s |-> << >>]]

\* The crate's promise: handles behave as independent byte strings.  A reserve
\* is invisible, a write through one handle is never seen through another, a
\* frozen buffer never changes, and no conversion loses or alters a byte.
Abstract == INSTANCE ByteStrings WITH obj <- Obj
ValueSemantics == Abstract!Spec
=============================================================================

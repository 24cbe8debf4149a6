---------------------------- MODULE FutureQueue ----------------------------
(***************************************************************************)
(* The operations of cppext::future_queue which DeviceAccess uses, on a    *)
(* queue as a sequence of at most n entries. An entry is data or an        *)
(* exception. The class is external (ChimeraTK-cppext).                    *)
(***************************************************************************)
EXTENDS Naturals, Sequences

\* A variant with a mistake: no bound.
PushUnbounded(q, entry, n) == Append(q, entry)

\* push_overwrite() and push_overwrite_exception(): a full queue loses the
\* entry which was written last, so the newest entry always gets in.
PushOverwrite(q, entry, n) ==
  IF Len(q) < n THEN Append(q, entry) ELSE [q EXCEPT ![Len(q)] = entry]

=============================================================================

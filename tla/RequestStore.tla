---------------------------- MODULE RequestStore ----------------------------
(***************************************************************************)
(* The list part of the OCR3 request Store, as operators on a sequence of  *)
(* workflow execution IDs (pkg/capabilities/consensus/ocr3/requests).      *)
(***************************************************************************)
EXTENDS Naturals, Sequences

InSeq(s, id) == \E i \in 1..Len(s) : s[i] = id

\* s without its (only) occurrence of id.  Store.evict filters every
\* occurrence; RequestHandler!StoreConsistent says that there is never a
\* second one.
Without(s, id) ==
  IF InSeq(s, id)
    THEN LET i == CHOOSE j \in 1..Len(s) : s[j] = id
         IN  SubSeq(s, 1, i - 1) \o SubSeq(s, i + 1, Len(s))
    ELSE s

\* FirstN: the oldest n requests, or all of them when there are fewer.
FirstN(s, n) == SubSeq(s, 1, IF n < Len(s) THEN n ELSE Len(s))
=============================================================================

-------------------------------- MODULE MCEfi --------------------------------
(* Responses of both revisions with no, one and two items, and memory maps    *)
(* whose size is a multiple of the size of a descriptor, or is not.           *)
EXTENDS Efi

MCResponses ==
  {Unanswered} \cup {Response(v, <<n>>, s) : v \in {0, 1}, n \in {2, 4}, s \in {<<>>, <<7>>, <<7, 9>>}}
MCMapResponses ==
  {Unanswered} \cup
  UNION {{Response(1, <<size, desc>>, s) : s \in [1 .. EntryCount(size, desc) + 1 -> BOOLEAN]} :
           size \in {0, 39, 40, 96, 100, 143, 144}, desc \in {0, 40, 48}}
=============================================================================

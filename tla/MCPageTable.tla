---------------------------- MODULE MCPageTable ----------------------------
(* Three entries to a table, 27 virtual pages.  The kernel is mapped at    *)
(* page 9, the second third; its memory leaves three or four pages for     *)
(* other tables.  The ranges start and end at, before and behind the ends  *)
(* of tables, fill one table and one subtree, and run into the kernel.     *)
EXTENDS PageTable

Layouts == {[start |-> 0, line |-> 1, end |-> 2, top |-> 12]}
Ranges == {<<0, 1>>, <<0, 9>>, <<1, 4>>, <<3, 3>>, <<6, 3>>, <<8, 2>>, <<12, 6>>}
=============================================================================

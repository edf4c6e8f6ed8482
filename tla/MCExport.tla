------------------------------- MODULE MCExport -------------------------------
(* Small instances of Export for TLC: three publications of two spaces that *)
(* add, change and remove files.                                            *)
EXTENDS Export, TLC

CONSTANTS old, new, other, company, group, server, page1, page2, page3, revised

\* Files 1 and 2 of the first publication; the second changes 1, drops 2 and adds 3.
MCRendered ==
  old :> <<page1, page2, None>> @@ new :> <<revised, None, page3>>
    @@ other :> <<page1, None, None>>

MCOrigin ==
  old :> [server |-> server, space |-> company] @@ new :> [server |-> server, space |-> company]
    @@ other :> [server |-> server, space |-> group]

=============================================================================

----------------------------- MODULE MCHistory -----------------------------
(* The panels of terminals of 95 by 55, the smallest that is accepted, of  *)
(* 160 by 55 and of 120 by 80, beside a logo of 52 columns.                *)
EXTENDS History

MCPanels == { [width |-> 38,  height |-> 46],
              [width |-> 103, height |-> 46],
              [width |-> 63,  height |-> 71] }
=============================================================================

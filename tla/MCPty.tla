------------------------------- MODULE MCPty -------------------------------
(* Two processes with the three stdio descriptors each, and a pty of two     *)
(* bytes.  Overrides inherit, or name one of two descriptors, each of which   *)
(* may be a terminal for one direction, a pty or closed.                     *)
EXTENDS Pty

StdioSources == {Inherit, 0, 2}
=============================================================================

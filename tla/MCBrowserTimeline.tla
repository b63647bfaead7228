--------------------------- MODULE MCBrowserTimeline ---------------------------
(* Small instances of BrowserTimeline for TLC. *)
EXTENDS BrowserTimeline

OneSlot == {1}
TwoSlots == {1, 2}
================================================================================

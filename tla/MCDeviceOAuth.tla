--------------------------- MODULE MCDeviceOAuth ---------------------------
(***************************************************************************)
(* DeviceOAuth on small instances.                                         *)
(***************************************************************************)
EXTENDS DeviceOAuth, TLC

\* Clients, forms and token requests are interchangeable.
Symmetry ==
    Permutations(Clients) \cup Permutations(Forms) \cup Permutations(Requests)

==============================================================================

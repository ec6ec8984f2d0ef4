------------------------------- MODULE Clients -------------------------------
(***************************************************************************)
(* What the modules about end users and their sessions have in common.     *)
(***************************************************************************)
CONSTANTS
  Devices,    \* values of the X-Device-Id header
  Requests,   \* HTTP requests that can be in flight at once
  None        \* nothing
=============================================================================

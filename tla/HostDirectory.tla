--------------------------- MODULE HostDirectory ---------------------------
(***************************************************************************)
(* What crawling a server promises, whatever the server answers and        *)
(* wherever a crawl stops: its communities are replaced by others, never   *)
(* by none and only by active ones that answer; the communities of other   *)
(* servers it brought stay; and hearsay about its software counts only     *)
(* while nothing better is known.                                          *)
(***************************************************************************)
CONSTANTS
  Own,     \* communities that live on the server
  Worthy,  \* communities that are active and reachable
  Brands,  \* names of server software
  Unsure   \* what the software is called before anything is known of it

VARIABLES
  shown,   \* communities listed because of the server
  brand    \* the software it is taken for

Init == shown = {} /\ brand \in Unsure

Hear == /\ brand \in Unsure
        /\ brand' \in Brands
        /\ UNCHANGED shown

Replace == /\ shown' # {}
           /\ shown \ Own \subseteq shown'
           /\ shown' \ shown \subseteq Worthy
           /\ brand' \in Brands \cup Unsure

\* A crawl that found no communities, but found other things to follow.
Keep == UNCHANGED shown /\ brand' \in Brands

Spec == Init /\ [][Hear \/ Replace \/ Keep]_<<shown, brand>>
=============================================================================

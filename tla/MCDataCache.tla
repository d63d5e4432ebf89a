----------------------------- MODULE MCDataCache -----------------------------
(***************************************************************************)
(* Small caches for TLC, by configuration:                                 *)
(*   MCCacheProgress  one way and two ports for three lines, two stores    *)
(*                    and a load at a time.  Values play no part: there is *)
(*                    one                                                  *)
(*   MCDataCache      one way and one port for two lines, two stores and a *)
(*                    load at a time: stores to one word wait together for *)
(*                    a fill, and the load's entry is squashed and used    *)
(*                    again                                                *)
(*   MCStoreOrder     one way and two ports, three stores: a held store is *)
(*                    overtaken by a younger one                           *)
(***************************************************************************)
EXTENDS DataCache
===============================================================================

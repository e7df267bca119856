\* One function of each kind, any calls in any order.
SPECIFICATION Spec
CONSTANTS
  Direct = {"set_probe_qty"}
  Described = {"set_tx_opsw_cross"}
  Diagnosed = {"get_free_tx_buf"}
  Whys <- MCWhys
INVARIANTS
  TypeOK
  FirstErrorDescribed
  SourceKnown

SPECIFICATION Spec
CONSTANTS
  Prefix = {"p1", "p2"}
  Content = {"isp", "lan"}
  Ours = "vpn"
  Broken = "broken"
  NoContent = "none"
  MayCrash = TRUE
INVARIANTS
  OthersKept
  RoutesGivenBack
  DnsOnlyInTunnel
  CoreBypassesTunnel

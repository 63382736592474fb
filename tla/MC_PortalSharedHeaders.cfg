CONSTANTS
  g1 = g1
  g2 = g2
  g3 = g3
  None = None
  Garbage = Garbage
  Gateways <- MCGateways
  GatewayVendorOf <- MCSharedVendorOf
  NativeCodec <- MCSharedNativeCodec
  LightClientsCfg <- MCSharedCfg
  MaxHeight = 1
SPECIFICATION Spec
PROPERTIES HeadersAdvanceAddressedGateway

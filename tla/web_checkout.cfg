SPECIFICATION FairCheckoutSpec
CONSTANTS
  i1 = i1
  Items = {i1}
  CartPrice <- PagePrices
  GatewayPrice <- ChangedPrices
  MaxQty = 2
  OtherItems = {i1}
  Ceiling = 2
  PaymentModes = {"live", "gateway", "test"}
  MaxCheckouts = 1
  MaxCharges = 2
  MaxOrders = 2
CHECK_DEADLOCK FALSE
PROPERTIES PurchaseKept 

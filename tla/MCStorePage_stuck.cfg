\* A shorter list behind product_displayed.
SPECIFICATION Spec
CONSTANTS
  p1 = p1 p2 = p2 a = a b = b s0 = s0 s2 = s2
  Product <- TwoProducts
  NoProduct = NoProduct
  Text <- OneText
  NoText = NoText
  NoAnswer = NoAnswer
  Ack = Ack
  SearchStrings <- Strings
  Everything = s0
  Result <- Found
  Stars = {}
  OthersRating <- Unrated
  MaxSent = 6
  Patient = TRUE
  MayLose = FALSE
PROPERTIES ClickExpands

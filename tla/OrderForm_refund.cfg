SPECIFICATION JobSpec
CONSTANTS
  COMPANY_MAX = 2
  CITY_MAX = 3
  PHONE_MAX = 3
  PHONE_MIN_DIGITS = 2
  EMAIL_MAX = 5
  SERVICE_MAX = 2
  MAX_SERVICES = 2
  FirstForms <- GoodForms
  Corrections <- GoodOrOther
  MaxPosts = 2
  Studio = Studio
  PRICE_SEK_EX_VAT <- ListPrices
  VAT_PERCENT = 25
CHECK_DEADLOCK FALSE
INVARIANTS
  RefundIsWhatWasCharged
